---- MODULE Spec2Model ----
(***************************************************************************)
(* A model of "grind": the Convex store (users, quests, activity), the     *)
(* terminal dashboard that talks to it through asynchronous commands, and  *)
(* the pure functions both sides rely on (level table, local XP estimate,  *)
(* insight mode selection).                                                *)
(*                                                                         *)
(* Strings the code inspects character by character (quest titles) are     *)
(* sequences of one-character strings.  A float64 that is a quotient of    *)
(* two small integers is the pair <<numerator, denominator>>.              *)
(* Math.random() is a number of hundredths in 0..99.                       *)
(***************************************************************************)
EXTENDS Integers, Sequences, FiniteSets, Bags, TLC

VARIABLES
    \* ---- remote store (convex) ----
    sUser,          \* the users row of the session's user
    sQuests,        \* the quests table: id -> row
    sActivity,      \* the activity table, oldest first
    \* ---- dashboard (DashboardModel) ----
    dUser,          \* d.user
    dQuests,        \* d.quests
    dActivity,      \* d.activity, newest first
    dErr,           \* d.err
    dLoading,       \* d.loading
    dInput,         \* d.input.Value()
    inputFocused,   \* d.inputFocused (d.questFocus is its negation)
    selectedQuest,  \* d.selectedQuest, 0-based, -1 for none
    levelUpVisible, \* d.levelUpModal.Visible
    groupVisible,   \* d.groupModal.Visible
    \* ---- commands in flight ----
    loads,          \* the loadUser and loadQuests commands that Init dispatches
    cmds,           \* the bag of commands that key presses dispatched
    hist,           \* per quest: quests:complete commands dispatched and delivered
    \* ---- inputs and results of the pure functions ----
    title, xpResult,
    currentXP, levelResult,
    members, draw, ai, insightType,
    \* ---- the session (App) and its onboarding screen ----
    app,            \* a.screen, whether the program has quit, and whether a
                    \* command has panicked
    config,         \* the auth.Config that App, onboarding and dashboard share
    disk,           \* ~/.grind/config.json
    onboarding,     \* the fields of OnboardingModel
    oCmds,          \* the bag of commands the onboarding screen dispatched
    \* ---- the dashboard's animation sequencer ----
    animation,      \* the fields of AnimationState
    modalTicks,     \* levelUpModal.Ticks
    ticks,          \* the AnimationTickMsg scheduled or waiting in the loop
    triggers,       \* how many completions have triggered an animation
    event,          \* the last event App.Update processed (n flips at each one),
                    \* and whether a remote command has failed so far
    \* ---- the groups of the store and the join subcommand ----
    gGroups,        \* the groups table: id -> row
    gUsers,         \* the groupId of each users row, 0 for none
    gActivity,      \* the joined_group rows of the activity table, oldest first
    gConfig,        \* GroupID and GroupName of the local configuration file
    gLast,          \* the last call (n flips at each one) and how it ended
    \* ---- the dashboard's data refresh ----
    refresh,        \* the tickActivity timers armed or waiting in the loop, and
                    \* the ActivityTickMsg handled so far
    polls,          \* the bag of loadActivity and loadStats commands in flight
    dStats          \* d.stats

storeVars == <<sUser, sQuests, sActivity>>
dashVars  == <<dUser, dQuests, dActivity, dErr, dLoading, dInput,
               inputFocused, selectedQuest, levelUpVisible, groupVisible>>
groupVars == <<gGroups, gUsers, gActivity, gConfig, gLast>>
pollVars  == <<refresh, polls, dStats>>
\* the inputs and results of the pure functions, the groups and the data
\* refresh, which the session specifications leave alone
pureVars  == <<title, xpResult, currentXP, levelResult, members, draw, ai, insightType,
               groupVars, pollVars>>
appVars   == <<app, config, disk, onboarding, oCmds, event>>
animVars  == <<animation, modalTicks, ticks, triggers>>
\* what the dashboard's data handlers and the store leave alone
otherVars == <<pureVars, animVars, appVars>>
vars      == <<sUser, sQuests, sActivity,
               dUser, dQuests, dActivity, dErr, dLoading, dInput,
               inputFocused, selectedQuest, levelUpVisible, groupVisible,
               loads, cmds, hist,
               title, xpResult, currentXP, levelResult, members, draw, ai, insightType,
               app, config, disk, onboarding, oCmds, event,
               animation, modalTicks, ticks, triggers,
               gGroups, gUsers, gActivity, gConfig, gLast,
               refresh, polls, dStats>>

Min(a, b) == IF a < b THEN a ELSE b

(***************************************************************************)
(* Level table                                                             *)
(***************************************************************************)

\* levels.Levels: the MinXP column, indexed by Number
Levels == <<0, 100, 300, 600, 1000, 1500, 2200, 3000, 4000, 5500>>

\* the loop of GetLevel from position i on, `level` being the value held so far
RECURSIVE GetLevelFrom(_, _, _)
GetLevelFrom(xp, i, level) ==
    IF i > Len(Levels) THEN level
    ELSE IF xp >= Levels[i] THEN GetLevelFrom(xp, i + 1, i)
    ELSE level

\* mutant: `xp > l.MinXP`
RECURSIVE GetLevelStrictFrom(_, _, _)
GetLevelStrictFrom(xp, i, level) ==
    IF i > Len(Levels) THEN level
    ELSE IF xp > Levels[i] THEN GetLevelStrictFrom(xp, i + 1, i)
    ELSE level

GetLevelStrict(xp) == GetLevelStrictFrom(xp, 1, 1)

\* levels.GetLevel(xp).Number
GetLevel(xp) == GetLevelFrom(xp, 1, 1)

\* levels.GetNextLevel(current).MinXP, or -1 for nil
GetNextLevel(current) ==
    IF current >= Len(Levels) THEN -1 ELSE Levels[current + 1]

\* mutant: the range taken from the level's own threshold to the one after next
LevelProgressWrongRange(xp) ==
    LET current == GetLevel(xp)
        next    == GetNextLevel(current)
    IN  IF next = -1 THEN <<1, 1>>
        ELSE IF next - Levels[current] = 0 THEN <<1, 1>>
        ELSE <<xp - Levels[current], next - Levels[current] - 1>>

\* levels.LevelProgress(currentXP): the quotient as <<numerator, denominator>>
LevelProgress(xp) ==
    LET current    == GetLevel(xp)
        next       == GetNextLevel(current)
        levelXP    == xp - Levels[current]
        levelRange == IF next = -1 THEN 0 ELSE next - Levels[current]
    IN  IF next = -1 THEN <<1, 1>>
        ELSE IF levelRange = 0 THEN <<1, 1>>
        ELSE <<levelXP, levelRange>>

\* convex/users.ts calculateLevel: its own copy of the table
usersLevels == <<0, 100, 300, 600, 1000, 1500, 2200, 3000, 4000, 5500>>

RECURSIVE usersCalculateFrom(_, _, _)
usersCalculateFrom(xp, i, currentLevel) ==
    IF i > Len(usersLevels) THEN currentLevel
    ELSE IF xp >= usersLevels[i] THEN usersCalculateFrom(xp, i + 1, i)
    ELSE currentLevel

\* mutant: `if (xp > l.minXp)`
RECURSIVE usersCalculateAbove(_, _, _)
usersCalculateAbove(xp, i, currentLevel) ==
    IF i > Len(usersLevels) THEN currentLevel
    ELSE IF xp > usersLevels[i] THEN usersCalculateAbove(xp, i + 1, i)
    ELSE currentLevel

usersCalculateLevelAbove(xp) == usersCalculateAbove(xp, 1, 1)

usersCalculateLevel(xp) == usersCalculateFrom(xp, 1, 1)

\* convex quests module calculateLevel: a third copy of the table
questsLevels == <<0, 100, 300, 600, 1000, 1500, 2200, 3000, 4000, 5500>>

RECURSIVE calculateLevelFrom(_, _, _)
calculateLevelFrom(xp, i, currentLevel) ==
    IF i > Len(questsLevels) THEN currentLevel
    ELSE IF xp >= questsLevels[i] THEN calculateLevelFrom(xp, i + 1, i)
    ELSE currentLevel

calculateLevel(xp) == calculateLevelFrom(xp, 1, 1)

(***************************************************************************)
(* Local XP estimate                                                       *)
(***************************************************************************)

UpperCase == <<"A","B","C","D","E","F","G","H","I","J","K","L","M",
               "N","O","P","Q","R","S","T","U","V","W","X","Y","Z">>
LowerCase == <<"a","b","c","d","e","f","g","h","i","j","k","l","m",
               "n","o","p","q","r","s","t","u","v","w","x","y","z">>

\* strings.ToLower on the ASCII letters
ToLower(s) ==
    [i \in 1..Len(s) |->
        IF \E k \in 1..26 : UpperCase[k] = s[i]
        THEN LowerCase[CHOOSE k \in 1..26 : UpperCase[k] = s[i]]
        ELSE s[i]]

\* strings.Contains
Contains(s, kw) ==
    \E i \in 1..(Len(s) - Len(kw) + 1) : SubSeq(s, i, i + Len(kw) - 1) = kw

\* len(strings.Fields(s)): the maximal runs of non-space characters
Fields(s) ==
    Cardinality({i \in 1..Len(s) : s[i] # " " /\ (i = 1 \/ s[i - 1] = " ")})

passive ==
    << <<"s","l","e","e","p">>,
       <<"r","e","s","t">>,
       <<"n","a","p">>,
       <<"r","e","l","a","x">>,
       <<"c","h","i","l","l">>,
       <<"w","a","t","c","h">>,
       <<"s","c","r","o","l","l">> >>

highEffort ==
    << <<"s","h","i","p">>,
       <<"d","e","p","l","o","y">>,
       <<"l","a","u","n","c","h">>,
       <<"b","u","i","l","d">>,
       <<"i","m","p","l","e","m","e","n","t">>,
       <<"c","r","e","a","t","e">>,
       <<"r","e","f","a","c","t","o","r">>,
       <<"m","a","r","a","t","h","o","n">>,
       <<"1","0","k","m">>,
       <<"2","0","k","m">> >>

medEffort ==
    << <<"g","y","m">>,
       <<"w","o","r","k","o","u","t">>,
       <<"r","u","n">>,
       <<"f","i","x">>,
       <<"d","e","e","p"," ","w","o","r","k">>,
       <<"s","t","u","d","y">>,
       <<"l","e","a","r","n">>,
       <<"p","r","a","c","t","i","c","e">>,
       <<"w","r","i","t","e">>,
       <<"d","e","s","i","g","n">>,
       <<"c","o","d","e">> >>

smallEffort ==
    << <<"r","e","a","d">>,
       <<"r","e","v","i","e","w">>,
       <<"c","a","l","l">>,
       <<"m","e","e","t","i","n","g">>,
       <<"e","m","a","i","l">>,
       <<"u","p","d","a","t","e">>,
       <<"c","h","e","c","k">> >>

\* `for _, kw := range kws { if strings.Contains(lower, kw) { ...; break } }`:
\* whether the loop body runs, scanning from position i
RECURSIVE AnyKeywordFrom(_, _, _)
AnyKeywordFrom(lower, kws, i) ==
    IF i > Len(kws) THEN FALSE
    ELSE IF Contains(lower, kws[i]) THEN TRUE
    ELSE AnyKeywordFrom(lower, kws, i + 1)

\* mutant: a passive keyword scores 0 only when no effort keyword matched
estimateXPPassiveLast(t) ==
    LET lower == ToLower(t)
        xp1 == 20 + (IF AnyKeywordFrom(lower, highEffort, 1) THEN 40 ELSE 0)
        xp2 == xp1 + (IF AnyKeywordFrom(lower, medEffort, 1) THEN 25 ELSE 0)
        xp3 == xp2 + (IF AnyKeywordFrom(lower, smallEffort, 1) THEN 10 ELSE 0)
        xp4 == xp3 + (IF Fields(t) > 5 THEN 10 ELSE 0)
    IN  IF AnyKeywordFrom(lower, passive, 1) /\ xp3 = 20 THEN 0
        ELSE IF xp4 > 100 THEN 100 ELSE xp4

\* mutant: the three tiers as one if / else-if chain
estimateXPFirstTier(t) ==
    LET lower == ToLower(t)
        xp3 == 20 + (IF AnyKeywordFrom(lower, highEffort, 1) THEN 40
                     ELSE IF AnyKeywordFrom(lower, medEffort, 1) THEN 25
                     ELSE IF AnyKeywordFrom(lower, smallEffort, 1) THEN 10
                     ELSE 0)
        xp4 == xp3 + (IF Fields(t) > 5 THEN 10 ELSE 0)
    IN  IF AnyKeywordFrom(lower, passive, 1) THEN 0
        ELSE IF xp4 > 100 THEN 100 ELSE xp4

\* estimateXP(title)
estimateXP(t) ==
    LET lower == ToLower(t)
        xp1 == 20 + (IF AnyKeywordFrom(lower, highEffort, 1) THEN 40 ELSE 0)
        xp2 == xp1 + (IF AnyKeywordFrom(lower, medEffort, 1) THEN 25 ELSE 0)
        xp3 == xp2 + (IF AnyKeywordFrom(lower, smallEffort, 1) THEN 10 ELSE 0)
        xp4 == xp3 + (IF Fields(t) > 5 THEN 10 ELSE 0)
    IN  IF AnyKeywordFrom(lower, passive, 1) THEN 0
        ELSE IF xp4 > 100 THEN 100 ELSE xp4

(***************************************************************************)
(* Insight mode selection                                                  *)
(***************************************************************************)

\* the rivalry condition's gap, `< 100`
RivalryGap == 100
\* `Math.random() < 0.3`, in hundredths
AnalystChance == 30

\* one step of [...members].sort((a, b) => b.weeklyXP - a.weeklyXP): the sort is
\* stable, so m goes behind every element whose weeklyXP is not smaller
InsertByWeeklyXP(sorted, m) ==
    LET k == Cardinality({i \in 1..Len(sorted) : sorted[i].weeklyXP >= m.weeklyXP})
    IN  SubSeq(sorted, 1, k) \o <<m>> \o SubSeq(sorted, k + 1, Len(sorted))

RECURSIVE sortByWeeklyXP(_)
sortByWeeklyXP(ms) ==
    IF ms = <<>> THEN <<>>
    ELSE InsertByWeeklyXP(sortByWeeklyXP(SubSeq(ms, 1, Len(ms) - 1)), ms[Len(ms)])

\* findIndex((m) => m.isCurrentUser), 0-based, -1 when there is none
findCurrentUser(ms) ==
    IF \E i \in 1..Len(ms) : ms[i].isCurrentUser
    THEN (CHOOSE i \in 1..Len(ms) :
            ms[i].isCurrentUser /\ \A j \in 1..(i - 1) : ~ms[j].isCurrentUser) - 1
    ELSE -1

\* mutant: the gap to the leader is not looked at
determineInsightModeNoGap(ms, random) ==
    LET sorted   == sortByWeeklyXP(ms)
        userRank == findCurrentUser(sorted) + 1
    IN  IF findCurrentUser(ms) = -1 \/ Len(ms) <= 1 THEN "stoic"
        ELSE IF userRank > 1 /\ ~sorted[1].isCurrentUser THEN "rivalry"
        ELSE IF userRank = 1 \/ random < AnalystChance THEN "analyst"
        ELSE "stoic"

\* mutant: `Math.random() > 0.3`
determineInsightModeFlipped(ms, random) ==
    LET sorted      == sortByWeeklyXP(ms)
        currentUser == ms[findCurrentUser(ms) + 1]
        userRank    == findCurrentUser(sorted) + 1
    IN  IF findCurrentUser(ms) = -1 \/ Len(ms) <= 1 THEN "stoic"
        ELSE IF /\ userRank > 1
                /\ ~sorted[1].isCurrentUser
                /\ sorted[1].weeklyXP - currentUser.weeklyXP < RivalryGap
        THEN "rivalry"
        ELSE IF userRank = 1 \/ random > AnalystChance THEN "analyst"
        ELSE "stoic"

\* determineInsightMode(members, currentUserName), `random` being Math.random()
determineInsightMode(ms, random) ==
    LET sorted      == sortByWeeklyXP(ms)
        currentUser == ms[findCurrentUser(ms) + 1]
        userRank    == findCurrentUser(sorted) + 1
    IN  IF findCurrentUser(ms) = -1 \/ Len(ms) <= 1 THEN "stoic"
        ELSE IF /\ userRank > 1
                /\ Len(sorted) > 0
                /\ ~sorted[1].isCurrentUser
                /\ sorted[1].weeklyXP - currentUser.weeklyXP < RivalryGap
        THEN "rivalry"
        ELSE IF userRank = 1 \/ random < AnalystChance THEN "analyst"
        ELSE "stoic"

\* generateFallbackInsight(...).type
generateFallbackInsightType(ms, type) ==
    IF findCurrentUser(ms) = -1 \/ Len(ms) <= 1 THEN "stoic" ELSE type

\* `Math.ceil(gap / 40)`: the XP of one quest the templates reckon with
QuestXP == 40

\* Math.ceil(a / b) for b > 0
Ceil(a, b) == -((-a) \div b)

\* the value generateFallbackInsight returns without its text
NoTemplate == [type |-> "stoic", gap |-> 0, quests |-> 0, templated |-> FALSE]

\* mutant: the gap is 0 for a viewer who leads
generateFallbackInsightZeroGap(ms, type) ==
    LET sorted      == sortByWeeklyXP(ms)
        currentUser == ms[findCurrentUser(ms) + 1]
        leader      == sorted[1]
    IN  IF findCurrentUser(ms) = -1 \/ Len(ms) <= 1 THEN NoTemplate
        ELSE LET gap == IF leader.isCurrentUser THEN 0
                        ELSE leader.weeklyXP - currentUser.weeklyXP
             IN  [type |-> type, gap |-> gap, quests |-> Ceil(gap, QuestXP),
                  templated |-> type \in {"rivalry", "analyst"}]

\* generateFallbackInsight(members, currentUserName, insightType): the type it
\* returns and the {gap} and {quests} it puts into a rivalry or analyst template
generateFallbackInsight(ms, type) ==
    LET sorted      == sortByWeeklyXP(ms)
        currentUser == ms[findCurrentUser(ms) + 1]
        leader      == sorted[1]
    IN  IF findCurrentUser(ms) = -1 \/ Len(ms) <= 1 THEN NoTemplate
        ELSE LET gap == IF leader.isCurrentUser
                        THEN leader.weeklyXP
                               - (IF Len(sorted) >= 2 THEN sorted[2].weeklyXP ELSE 0)
                        ELSE leader.weeklyXP - currentUser.weeklyXP
             IN  [type |-> type, gap |-> gap, quests |-> Ceil(gap, QuestXP),
                  templated |-> type \in {"rivalry", "analyst"}]

\* generateGroupInsight(...).type, or "throw" when generateText fails;
\* aiOutcome: "unconfigured" (no credentials), "ok", "throws"
generateGroupInsightType(ms, random, aiOutcome) ==
    LET type == determineInsightMode(ms, random)
    IN  IF aiOutcome = "unconfigured" THEN generateFallbackInsightType(ms, type)
        ELSE IF aiOutcome = "throws" THEN "throw"
        ELSE type

\* getStatsWithInsight(...).insightType for stats.memberStats = ms
getStatsWithInsightType(ms, random, aiOutcome) ==
    IF Len(ms) > 1
    THEN LET t == generateGroupInsightType(ms, random, aiOutcome)
         IN  IF t = "throw" THEN "stoic" ELSE t
    ELSE "stoic"

(***************************************************************************)
(* The store: convex mutations and queries.  A handler runs as one         *)
(* transaction; it yields the tables after it, and its value or the        *)
(* message of the Error it throws.                                         *)
(***************************************************************************)

\* quests the store holds at most (rows ever inserted)
MaxQuests == 1
\* dashboard commands running at the same time, besides the initial loads
MaxInflight == 2

NoValue == [none |-> TRUE]

Throw(message) ==
    [err |-> message, user |-> sUser, quests |-> sQuests,
     activity |-> sActivity, value |-> NoValue]

\* ctx.db.get(questId) finds a row
questExists(q) == q \in 1..Len(sQuests) /\ sQuests[q].status # "deleted"

\* mutant: the event is stored without its xp
EventWithoutXP(type, q, xp, newLevel) ==
    [type |-> type, quest |-> q, xp |-> 0, newLevel |-> newLevel]

Event(type, q, xp, newLevel) ==
    [type |-> type, quest |-> q, xp |-> xp, newLevel |-> newLevel]

\* quests:create
questsCreate(xp) ==
    LET questId == Len(sQuests) + 1
    IN  [err      |-> "",
         user     |-> sUser,
         quests   |-> Append(sQuests, [xp |-> xp, status |-> "pending"]),
         activity |-> IF sUser.inGroup
                      THEN Append(sActivity, Event("quest_created", questId, xp, 0))
                      ELSE sActivity,
         value    |-> [questId |-> questId]]

\* mutant: `leveledUp = newLevel >= user.level`
questsCompleteLevelGeq(q) ==
    IF ~questExists(q) THEN Throw("Quest not found")
    ELSE IF sQuests[q].status = "completed" THEN Throw("Quest already completed")
    ELSE
      LET quest       == sQuests[q]
          newTotalXp  == sUser.totalXp + quest.xp
          newWeeklyXp == sUser.weeklyXp + quest.xp
          newLevel    == calculateLevel(newTotalXp)
          leveledUp   == newLevel >= sUser.level
      IN  [err      |-> "",
           quests   |-> [sQuests EXCEPT ![q].status = "completed"],
           user     |-> [sUser EXCEPT !.totalXp = newTotalXp,
                                      !.weeklyXp = newWeeklyXp,
                                      !.level = newLevel],
           activity |-> IF sUser.inGroup
                        THEN sActivity
                               \o <<Event("quest_completed", q, quest.xp, 0)>>
                               \o (IF leveledUp
                                   THEN <<Event("level_up", 0, 0, newLevel)>>
                                   ELSE <<>>)
                        ELSE sActivity,
           value    |-> [xpEarned |-> quest.xp, newTotalXp |-> newTotalXp,
                         newWeeklyXp |-> newWeeklyXp, leveledUp |-> leveledUp,
                         newLevel |-> newLevel]]

\* mutant: the status is not looked at before completing
questsCompleteNoCheck(q) ==
    IF ~questExists(q) THEN Throw("Quest not found")
    ELSE
      LET quest       == sQuests[q]
          newTotalXp  == sUser.totalXp + quest.xp
          newWeeklyXp == sUser.weeklyXp + quest.xp
          newLevel    == calculateLevel(newTotalXp)
          leveledUp   == newLevel > sUser.level
      IN  [err      |-> "",
           quests   |-> [sQuests EXCEPT ![q].status = "completed"],
           user     |-> [sUser EXCEPT !.totalXp = newTotalXp,
                                      !.weeklyXp = newWeeklyXp,
                                      !.level = newLevel],
           activity |-> IF sUser.inGroup
                        THEN sActivity
                               \o <<Event("quest_completed", q, quest.xp, 0)>>
                               \o (IF leveledUp
                                   THEN <<Event("level_up", 0, 0, newLevel)>>
                                   ELSE <<>>)
                        ELSE sActivity,
           value    |-> [xpEarned |-> quest.xp, newTotalXp |-> newTotalXp,
                         newWeeklyXp |-> newWeeklyXp, leveledUp |-> leveledUp,
                         newLevel |-> newLevel]]

\* quests:complete
questsComplete(q) ==
    IF ~questExists(q) THEN Throw("Quest not found")
    ELSE IF sQuests[q].status = "completed" THEN Throw("Quest already completed")
    ELSE
      LET quest       == sQuests[q]
          newTotalXp  == sUser.totalXp + quest.xp
          newWeeklyXp == sUser.weeklyXp + quest.xp
          newLevel    == calculateLevel(newTotalXp)
          leveledUp   == newLevel > sUser.level
      IN  [err      |-> "",
           quests   |-> [sQuests EXCEPT ![q].status = "completed"],
           user     |-> [sUser EXCEPT !.totalXp = newTotalXp,
                                      !.weeklyXp = newWeeklyXp,
                                      !.level = newLevel],
           activity |-> IF sUser.inGroup
                        THEN sActivity
                               \o <<Event("quest_completed", q, quest.xp, 0)>>
                               \o (IF leveledUp
                                   THEN <<Event("level_up", 0, 0, newLevel)>>
                                   ELSE <<>>)
                        ELSE sActivity,
           value    |-> [xpEarned |-> quest.xp, newTotalXp |-> newTotalXp,
                         newWeeklyXp |-> newWeeklyXp, leveledUp |-> leveledUp,
                         newLevel |-> newLevel]]

\* mutant: any quest that is not in progress yet is (re)started
questsStartNoCheck(q) ==
    IF ~questExists(q) THEN Throw("Quest not found")
    ELSE IF sQuests[q].status = "in_progress"
    THEN Throw("Quest must be pending to start")
    ELSE [err      |-> "",
          user     |-> sUser,
          quests   |-> [sQuests EXCEPT ![q].status = "in_progress"],
          activity |-> IF sUser.inGroup
                       THEN Append(sActivity, Event("quest_started", q, 0, 0))
                       ELSE sActivity,
          value    |-> [questId |-> q, status |-> "in_progress"]]

\* quests:start
questsStart(q) ==
    IF ~questExists(q) THEN Throw("Quest not found")
    ELSE IF sQuests[q].status # "pending"
    THEN Throw("Quest must be pending to start")
    ELSE [err      |-> "",
          user     |-> sUser,
          quests   |-> [sQuests EXCEPT ![q].status = "in_progress"],
          activity |-> IF sUser.inGroup
                       THEN Append(sActivity, Event("quest_started", q, 0, 0))
                       ELSE sActivity,
          value    |-> [questId |-> q, status |-> "in_progress"]]

\* mutant: the status is not looked at before deleting
questsRemoveAny(q) ==
    IF ~questExists(q) THEN Throw("Quest not found")
    ELSE [err      |-> "",
          user     |-> sUser,
          quests   |-> [sQuests EXCEPT ![q].status = "deleted"],
          activity |-> sActivity,
          value    |-> NoValue]

\* quests:remove; ctx.db.delete leaves no row, which the model marks "deleted"
\* (ids are never handed out again)
questsRemove(q) ==
    IF ~questExists(q) THEN Throw("Quest not found")
    ELSE IF sQuests[q].status = "completed"
    THEN Throw("Cannot delete completed quest")
    ELSE [err      |-> "",
          user     |-> sUser,
          quests   |-> [sQuests EXCEPT ![q].status = "deleted"],
          activity |-> sActivity,
          value    |-> NoValue]

\* users:create: the row it inserts
usersCreate ==
    [err      |-> "",
     user     |-> [totalXp |-> 0, weeklyXp |-> 0, level |-> 1, inGroup |-> FALSE],
     quests   |-> sQuests,
     activity |-> sActivity,
     value    |-> NoValue]

\* users:addXp
usersAddXp(xp) ==
    LET newTotalXp  == sUser.totalXp + xp
        newWeeklyXp == sUser.weeklyXp + xp
        newLevel    == usersCalculateLevel(newTotalXp)
        leveledUp   == newLevel > sUser.level
    IN  [err      |-> "",
         user     |-> [sUser EXCEPT !.totalXp = newTotalXp,
                                    !.weeklyXp = newWeeklyXp,
                                    !.level = newLevel],
         quests   |-> sQuests,
         activity |-> sActivity,
         value    |-> [newTotalXp |-> newTotalXp, newWeeklyXp |-> newWeeklyXp,
                       newLevel |-> newLevel, leveledUp |-> leveledUp]]

\* quests:listToday, ordered by createdAt ascending (the order of insertion)
RECURSIVE questsListTodayFrom(_)
questsListTodayFrom(q) ==
    IF q > Len(sQuests) THEN <<>>
    ELSE (IF sQuests[q].status # "deleted"
          THEN <<[id |-> q, xp |-> sQuests[q].xp, status |-> sQuests[q].status]>>
          ELSE <<>>) \o questsListTodayFrom(q + 1)

questsListToday == questsListTodayFrom(1)

\* the store after a handler that returned r
Commit(r) ==
    /\ sUser' = r.user
    /\ sQuests' = r.quests
    /\ sActivity' = r.activity

(***************************************************************************)
(* Bounds of the pure-function specifications                              *)
(***************************************************************************)

\* words per generated title
MaxWords == 6
\* largest XP the level functions are applied to
MaxLevelXP == 5600
\* members per group snapshot
MaxMembers == 3

\* the vocabulary of the generated titles: a high-effort keyword in mixed case,
\* the two halves of the medium-effort keyword "deep work" (neither is a keyword
\* alone), a low-effort keyword, and a word that holds the passive keyword "rest"
Words ==
    { <<"S","h","i","p">>, <<"d","e","e","p">>, <<"w","o","r","k">>,
      <<"c","a","l","l">>, <<"u","n","r","e","s","t">> }

ScenarioTitles ==
    { <<"s","h","i","p"," ","l","a","n","d","i","n","g"," ","p","a","g","e"," ",
        "a","n","d"," ","w","r","i","t","e"," ","d","o","c","s">>,
      <<"s","l","e","e","p"," ","8"," ","h","o","u","r","s">>,
      <<" "," ","R","E","A","D"," "," ","i","t"," ">>,
      <<"S","L","E","E","P"," ","i","n">> }

RECURSIVE JoinWords(_)
JoinWords(ws) ==
    IF ws = <<>> THEN <<>>
    ELSE IF Len(ws) = 1 THEN ws[1]
    ELSE ws[1] \o <<" ">> \o JoinWords(Tail(ws))

Titles ==
    {JoinWords(ws) : ws \in UNION {[1..n -> Words] : n \in 0..MaxWords}}
        \cup ScenarioTitles

\* weekly XP values of a member: gaps of 1, 20, 40, 60, 80, 99, 100, 119, 120
WeeklyXPs == {0, 1, 40, 100, 120}
MemberStats == [weeklyXP : WeeklyXPs, isCurrentUser : BOOLEAN]
\* Math.random() in hundredths, on both sides of the 0.30 threshold
Draws == {0, 29, 30, 99}
AiOutcomes == {"ok", "unconfigured", "throws"}

\* results before the function has been applied
LevelNotRun   == [client |-> 0, server |-> 0, quests |-> 0, progress |-> <<0, 1>>]
InsightNotRun == [mode |-> "none", stats |-> "none", fallback |-> NoTemplate]

\* the dashboard and the store are not part of the pure-function specifications
\* a session that NewApp started on the dashboard, from a configuration that
\* names the user
NoOnboarding ==
    [step |-> "none", nameInput |-> <<>>, groupInput |-> <<>>, codeInput |-> <<>>,
     nameFocus |-> FALSE, groupFocus |-> FALSE, codeFocus |-> FALSE,
     focusedInput |-> -1, groupChoice |-> 0, inviteCode |-> "",
     loading |-> FALSE, err |-> ""]
LoggedIn ==
    [userID |-> "user", userName |-> <<"a">>, groupID |-> "", groupName |-> <<>>]
NoEvent == [n |-> 0, kind |-> "none", key |-> "", failed |-> FALSE]
\* NewAnimationState (Frame only picks the picture and is left out)
NewAnimationState ==
    [DisplayedXP |-> 0, TargetXP |-> 0, XPTickRate |-> 5, FlashTicks |-> 0]

AnimIdle ==
    /\ animation = NewAnimationState
    /\ modalTicks = 0
    /\ ticks = 0
    /\ triggers = 0

\* no refresh timer and no refresh command is followed
NoStats == [loaded |-> FALSE, todayXP |-> 0, questsCompleted |-> 0, questsTotal |-> 0,
            weekXP |-> 0]
NoTimer == [timers |-> 0, fired |-> 0]

\* a loadActivity or loadStats command; it carries its message once it has run
PollCommand(kind) ==
    [kind |-> kind, phase |-> "running", err |-> "", activity |-> <<>>,
     stats |-> NoStats]

\* tickActivity: one more timer that will send an ActivityTickMsg
tickActivity(r) == [r EXCEPT !.timers = @ + 1]

\* d.loadActivity() and d.loadStats() in a tea.Batch
LoadActivityAndStats == SetToBag({PollCommand("activity"), PollCommand("stats")})

PollIdle ==
    /\ refresh = NoTimer
    /\ polls = EmptyBag
    /\ dStats = NoStats

AppIdle ==
    /\ PollIdle
    /\ app = [screen |-> "dashboard", quit |-> FALSE, panicked |-> FALSE]
    /\ config = LoggedIn
    /\ disk = LoggedIn
    /\ onboarding = NoOnboarding
    /\ oCmds = EmptyBag
    /\ event = NoEvent
    /\ AnimIdle

\* no group and no user in the store, no call made
NoCall == [n |-> 0, op |-> "none", arg |-> 0, err |-> ""]
NoGroupConfig == [loggedIn |-> TRUE, GroupID |-> <<>>, GroupName |-> <<>>]
GroupsIdle ==
    /\ gGroups = <<>>
    /\ gUsers = <<>>
    /\ gActivity = <<>>
    /\ gConfig = NoGroupConfig
    /\ gLast = NoCall

SessionIdle ==
    /\ sUser = [totalXp |-> 0, weeklyXp |-> 0, level |-> 1, inGroup |-> FALSE]
    /\ sQuests = <<>>
    /\ sActivity = <<>>
    /\ dUser = [totalXp |-> 0, weeklyXp |-> 0, level |-> 1, inGroup |-> FALSE]
    /\ dQuests = <<>>
    /\ dActivity = <<>>
    /\ dErr = ""
    /\ dLoading = FALSE
    /\ dInput = <<>>
    /\ inputFocused = TRUE
    /\ selectedQuest = -1
    /\ levelUpVisible = FALSE
    /\ groupVisible = FALSE
    /\ loads = <<>>
    /\ cmds = EmptyBag
    /\ hist = <<>>
    /\ AppIdle

MainIdle == SessionIdle /\ GroupsIdle

XPIdle      == title = <<>> /\ xpResult = -1
LevelIdle   == currentXP = 0 /\ levelResult = LevelNotRun
InsightIdle == members = <<>> /\ draw = 0 /\ ai = "ok" /\ insightType = InsightNotRun

\* everything but the groups
sessionVars == <<sUser, sQuests, sActivity,
                 dUser, dQuests, dActivity, dErr, dLoading, dInput,
                 inputFocused, selectedQuest, levelUpVisible, groupVisible,
                 loads, cmds, hist, appVars, animVars,
                 title, xpResult, currentXP, levelResult, members, draw, ai,
                 insightType, pollVars>>

mainVars == <<sUser, sQuests, sActivity,
              dUser, dQuests, dActivity, dErr, dLoading, dInput,
              inputFocused, selectedQuest, levelUpVisible, groupVisible,
              loads, cmds, hist, appVars, animVars, groupVars, pollVars>>

(***************************************************************************)
(* SpecXP: estimateXP applied to every title of Titles                     *)
(***************************************************************************)

InitXP ==
    /\ MainIdle /\ LevelIdle /\ InsightIdle
    /\ title \in Titles
    /\ xpResult = -1

EstimateXP ==
    /\ xpResult = -1
    /\ xpResult' = estimateXP(title)
    /\ UNCHANGED <<mainVars, title, currentXP, levelResult,
                   members, draw, ai, insightType>>

NextXP == EstimateXP

SpecXP == InitXP /\ [][NextXP]_vars

(***************************************************************************)
(* SpecLevel: the level functions applied to every XP in 0..MaxLevelXP     *)
(***************************************************************************)

InitLevel ==
    /\ MainIdle /\ XPIdle /\ InsightIdle
    /\ currentXP \in 0..MaxLevelXP
    /\ levelResult = LevelNotRun

ApplyLevel ==
    /\ levelResult = LevelNotRun
    /\ levelResult' = [client   |-> GetLevel(currentXP),
                       server   |-> usersCalculateLevel(currentXP),
                       quests   |-> calculateLevel(currentXP),
                       progress |-> LevelProgress(currentXP)]
    /\ UNCHANGED <<mainVars, title, xpResult, currentXP,
                   members, draw, ai, insightType>>

NextLevel == ApplyLevel

SpecLevel == InitLevel /\ [][NextLevel]_vars

(***************************************************************************)
(* SpecInsight: the mode selection applied to every snapshot of at most    *)
(* MaxMembers members                                                      *)
(***************************************************************************)

InitInsight ==
    /\ MainIdle /\ XPIdle /\ LevelIdle
    /\ members \in UNION {[1..n -> MemberStats] : n \in 0..MaxMembers}
    /\ draw \in Draws
    /\ ai \in AiOutcomes
    /\ insightType = InsightNotRun

SelectInsight ==
    /\ insightType = InsightNotRun
    /\ insightType' = [mode  |-> determineInsightMode(members, draw),
                       stats |-> getStatsWithInsightType(members, draw, ai),
                       fallback |-> generateFallbackInsight(
                                        members, determineInsightMode(members, draw))]
    /\ UNCHANGED <<mainVars, title, xpResult, currentXP, levelResult,
                   members, draw, ai>>

NextInsight == SelectInsight

SpecInsight == InitInsight /\ [][NextInsight]_vars

(***************************************************************************)
(* Spec: the store, one dashboard session and other clients of the store   *)
(***************************************************************************)

\* characters the text field holds at most
MaxInput == 1
\* quests:complete commands the dashboard dispatches for one quest at most
MaxCompletes == 2

\* the XP values an ai:evaluateQuest reply carries
AiXPs == {10}

\* what the network does to one remote call: the call is answered; the request
\* never reaches the store; the store runs it and the answer never arrives
Outcomes == {"ok", "lost", "timeout"}

\* the error of client.call when no answer arrives
HttpError == "http request"
\* the error of client.call for an answer of status "error": "convex error: "
\* and the message the handler threw, which stands for it here
ConvexError(message) == message
NoError == ""

\* what client.Mutation returns to the command for the handler result r
Answer(outcome, r) ==
    IF outcome # "ok" THEN HttpError
    ELSE IF r.err # "" THEN ConvexError(r.err)
    ELSE NoError

NoMsg == [err |-> NoError, quest |-> 0, xp |-> 0, levelUp |-> FALSE, newLevel |-> 0]
\* the nil tea.Cmd
Free  == [kind |-> "free", quest |-> 0, xp |-> 0, title |-> <<>>,
          posted |-> FALSE, msg |-> NoMsg]
Command(kind, q, xp, t) ==
    [kind |-> kind, quest |-> q, xp |-> xp, title |-> t,
     posted |-> FALSE, msg |-> NoMsg]

Commands == BagToSet(cmds)

Running(c, kind) == c.kind = kind /\ ~c.posted
Posted(c, kind)  == c.kind = kind /\ c.posted

\* the command c returns the message m
Post(c, m) ==
    cmds' = (cmds (-) SetToBag({c}))
              (+) SetToBag({[c EXCEPT !.posted = TRUE, !.msg = m]})

\* the event loop takes the message of c
Take(c) == cmds' = cmds (-) SetToBag({c})

NoHist == [sent |-> 0, overlap |-> FALSE, ok |-> 0, err |-> 0]

\* NewDashboardModel and DashboardModel.Init, against a store that holds the
\* user's row and no quest of today
Init ==
    /\ \E xp \in {<<0, 0>>, <<95, 40>>}, inGroup \in BOOLEAN :
          sUser = [totalXp |-> xp[1], weeklyXp |-> xp[2],
                   level |-> calculateLevel(xp[1]), inGroup |-> inGroup]
    /\ sQuests = <<>>
    /\ sActivity = <<>>
    /\ dUser = [totalXp |-> 0, weeklyXp |-> 0, level |-> 1,
                inGroup |-> sUser.inGroup]
    /\ dQuests = <<>>
    /\ dActivity = <<>>
    /\ dErr = NoError
    /\ dLoading = FALSE
    /\ dInput = <<>>
    /\ inputFocused = TRUE
    /\ selectedQuest = -1
    /\ levelUpVisible = FALSE
    /\ groupVisible = FALSE
    /\ loads = [user   |-> [phase |-> "running", err |-> NoError, user |-> dUser],
                quests |-> [phase |-> "running", err |-> NoError, quests |-> <<>>]]
    /\ cmds = EmptyBag
    /\ hist = [q \in 1..MaxQuests |-> NoHist]
    /\ XPIdle /\ LevelIdle /\ InsightIdle
    /\ AppIdle
    /\ GroupsIdle

(* ---- the commands: each runs once, off the event loop, and posts one ---- *)
(* ---- message                                                         ---- *)

\* the closure of loadUser (users:get)
RunLoadUser ==
    /\ loads.user.phase = "running"
    /\ \E outcome \in {"ok", "lost"} :
          loads' = [loads EXCEPT !.user =
                      IF outcome = "ok"
                      THEN [phase |-> "posted", err |-> NoError, user |-> sUser]
                      ELSE [phase |-> "posted", err |-> HttpError, user |-> dUser]]
    /\ UNCHANGED <<storeVars, dashVars, cmds, hist, otherVars>>

\* the closure of loadQuests (quests:listToday)
RunLoadQuests ==
    /\ loads.quests.phase = "running"
    /\ \E outcome \in {"ok", "lost"} :
          loads' = [loads EXCEPT !.quests =
                      IF outcome = "ok"
                      THEN [phase |-> "posted", err |-> NoError,
                            quests |-> questsListToday]
                      ELSE [phase |-> "posted", err |-> HttpError, quests |-> <<>>]]
    /\ UNCHANGED <<storeVars, dashVars, cmds, hist, otherVars>>

\* the closure of addQuest: ai:evaluateQuest, then quests:create
RunAddQuest(c) ==
    /\ Running(c, "add")
    /\ \E evaluated \in BOOLEAN, aiXP \in AiXPs, outcome \in Outcomes :
          LET xp == IF evaluated THEN aiXP ELSE estimateXP(c.title)
              r  == questsCreate(xp)
          IN  /\ IF outcome = "lost"
                 THEN UNCHANGED storeVars
                 ELSE Commit(r)
              /\ Post(c, IF outcome = "ok"
                         THEN [NoMsg EXCEPT !.quest = r.value.questId, !.xp = xp]
                         ELSE [NoMsg EXCEPT !.err = "failed to save quest"])
    /\ UNCHANGED <<dashVars, loads, hist, otherVars>>

\* the closure of startQuest (quests:start)
RunStartQuest(c) ==
    /\ Running(c, "start")
    /\ \E outcome \in Outcomes :
          LET r == questsStart(c.quest)
          IN  /\ IF outcome = "lost"
                 THEN UNCHANGED storeVars
                 ELSE Commit(r)
              /\ Post(c, [NoMsg EXCEPT !.err = Answer(outcome, r),
                                       !.quest = c.quest])
    /\ UNCHANGED <<dashVars, loads, hist, otherVars>>

\* the closure of completeQuest (quests:complete)
RunCompleteQuest(c) ==
    /\ Running(c, "complete")
    /\ \E outcome \in Outcomes :
          LET r == questsComplete(c.quest)
          IN  /\ IF outcome = "lost"
                 THEN UNCHANGED storeVars
                 ELSE Commit(r)
              /\ Post(c, IF Answer(outcome, r) # NoError
                         THEN [NoMsg EXCEPT !.err = Answer(outcome, r),
                                            !.quest = c.quest]
                         ELSE [err      |-> NoError,
                               quest    |-> c.quest,
                               xp       |-> r.value.xpEarned,
                               levelUp  |-> r.value.leveledUp,
                               newLevel |-> IF r.value.leveledUp
                                            THEN r.value.newLevel ELSE 0])
    /\ UNCHANGED <<dashVars, loads, hist, otherVars>>

(* ---- DashboardModel.Update, one action per message type ---- *)

\* case UserLoadedMsg
UpdateUserLoadedMsg ==
    /\ loads.user.phase = "posted"
    /\ dUser' = IF loads.user.err = NoError THEN loads.user.user ELSE dUser
    /\ loads' = [loads EXCEPT !.user.phase = "done"]
    /\ UNCHANGED <<storeVars, dQuests, dActivity, dErr, dLoading, dInput,
                   inputFocused, selectedQuest, levelUpVisible, groupVisible,
                   cmds, hist, otherVars>>

\* mutant: the list is taken only while the cache holds no quest
UpdateQuestsLoadedMsgOnce ==
    /\ loads.quests.phase = "posted"
    /\ dQuests' = IF loads.quests.err = NoError /\ loads.quests.quests # <<>>
                     /\ dQuests = <<>>
                  THEN loads.quests.quests ELSE dQuests
    /\ loads' = [loads EXCEPT !.quests.phase = "done"]
    /\ UNCHANGED <<storeVars, dUser, dActivity, dErr, dLoading, dInput,
                   inputFocused, selectedQuest, levelUpVisible, groupVisible,
                   cmds, hist, otherVars>>

\* case QuestsLoadedMsg; a reply without quests leaves msg.Quests nil
UpdateQuestsLoadedMsg ==
    /\ loads.quests.phase = "posted"
    /\ dQuests' = IF loads.quests.err = NoError /\ loads.quests.quests # <<>>
                  THEN loads.quests.quests ELSE dQuests
    /\ loads' = [loads EXCEPT !.quests.phase = "done"]
    /\ UNCHANGED <<storeVars, dUser, dActivity, dErr, dLoading, dInput,
                   inputFocused, selectedQuest, levelUpVisible, groupVisible,
                   cmds, hist, otherVars>>

\* case QuestAddedMsg
UpdateQuestAddedMsg(c) ==
    /\ Posted(c, "add")
    /\ dLoading' = FALSE
    /\ dInput' = <<>>
    /\ LET msg == c.msg
       IN  IF msg.err # NoError
           THEN /\ dErr' = msg.err
                /\ UNCHANGED <<dQuests, dActivity>>
           ELSE /\ dQuests' = Append(dQuests, [id |-> msg.quest, xp |-> msg.xp,
                                               status |-> "pending"])
                /\ dActivity' = <<Event("quest_created", msg.quest, msg.xp, 0)>>
                                  \o dActivity
                /\ UNCHANGED dErr
    /\ Take(c)
    /\ UNCHANGED <<storeVars, dUser, inputFocused, selectedQuest,
                   levelUpVisible, groupVisible, loads, hist, otherVars>>

\* the loop `for i := range d.quests` that sets the status of the quests of id q
SetStatus(quests, q, status) ==
    [k \in 1..Len(quests) |->
        IF quests[k].id = q THEN [quests[k] EXCEPT !.status = status]
        ELSE quests[k]]

\* mutant: the error of the message is not looked at
UpdateQuestStartedMsgOptimistic(c) ==
    /\ Posted(c, "start")
    /\ dQuests' = SetStatus(dQuests, c.msg.quest, "in_progress")
    /\ Take(c)
    /\ UNCHANGED <<storeVars, dUser, dActivity, dErr, dLoading, dInput,
                   inputFocused, selectedQuest, levelUpVisible, groupVisible,
                   loads, hist, otherVars>>

\* case QuestStartedMsg
UpdateQuestStartedMsg(c) ==
    /\ Posted(c, "start")
    /\ LET msg == c.msg
       IN  IF msg.err # NoError
           THEN /\ dErr' = msg.err
                /\ UNCHANGED dQuests
           ELSE /\ dQuests' = SetStatus(dQuests, msg.quest, "in_progress")
                /\ UNCHANGED dErr
    /\ Take(c)
    /\ UNCHANGED <<storeVars, dUser, dActivity, dLoading, dInput,
                   inputFocused, selectedQuest, levelUpVisible, groupVisible,
                   loads, hist, otherVars>>

\* case QuestCompletedMsg
UpdateQuestCompletedMsg(c) ==
    /\ Posted(c, "complete")
    /\ LET msg == c.msg
           q   == msg.quest
       IN  IF msg.err # NoError
           THEN /\ dErr' = msg.err
                /\ hist' = [hist EXCEPT ![q].err = @ + 1]
                /\ UNCHANGED <<dQuests, dUser, dActivity, levelUpVisible>>
           ELSE LET total == dUser.totalXp + msg.xp
                IN  /\ dQuests' = SetStatus(dQuests, q, "completed")
                    /\ dUser' = [dUser EXCEPT !.totalXp = total,
                                              !.weeklyXp = @ + msg.xp,
                                              !.level = GetLevel(total)]
                    /\ dActivity' =
                         (IF msg.levelUp
                          THEN <<Event("level_up", 0, 0, msg.newLevel)>>
                          ELSE <<>>)
                         \o <<Event("quest_completed", q, msg.xp, 0)>>
                         \o dActivity
                    /\ levelUpVisible' = IF msg.levelUp THEN TRUE ELSE levelUpVisible
                    /\ hist' = [hist EXCEPT ![q].ok = @ + 1]
                    /\ UNCHANGED dErr
    /\ Take(c)
    /\ UNCHANGED <<storeVars, dLoading, dInput, inputFocused, selectedQuest,
                   groupVisible, loads, otherVars>>

(* ---- DashboardModel.handleKey ---- *)

\* the keys pressed in Spec: they type a title, submit it, move the focus to
\* the quest list and act on the selected quest
Keys == {"enter", "tab", "x"}

\* the keys bubbles' textinput inserts as a character
Runes == {"1", "2", "a", "j", "k", "q", "x"}

\* d.input.Update(msg) for a key message
inputUpdate(value, key) ==
    IF key \in Runes /\ Len(value) < MaxInput THEN Append(value, key) ELSE value

\* mutant: int(key[0] - '0')
DigitIndexFromZero(key) ==
    CASE key = "1" -> 1 [] key = "2" -> 2 [] OTHER -> -1

\* int(key[0] - '1')
DigitIndex(key) ==
    CASE key = "1" -> 0 [] key = "2" -> 1 [] OTHER -> -1

\* mutant: every quest is started, whatever its status
handleQuestActionStartsAny(idx) ==
    IF idx < 0 \/ idx >= Len(dQuests) THEN Free
    ELSE Command("start", dQuests[idx + 1].id, dQuests[idx + 1].xp, <<>>)

\* handleQuestAction(idx): the command it returns, Free for none
handleQuestAction(idx) ==
    IF idx < 0 \/ idx >= Len(dQuests) THEN Free
    ELSE LET quest == dQuests[idx + 1]
         IN  CASE quest.status = "pending" ->
                    Command("start", quest.id, quest.xp, <<>>)
               [] quest.status = "in_progress" ->
                    Command("complete", quest.id, quest.xp, <<>>)
               [] OTHER -> Free

\* mutant: the error is cleared before the modals are looked at
UnmovedErrorCleared ==
    [err |-> NoError, loading |-> dLoading, input |-> dInput,
     inputFocused |-> inputFocused, selectedQuest |-> selectedQuest,
     levelUp |-> levelUpVisible, group |-> groupVisible, cmd |-> Free]

\* case "up", "k" (d.questFocus holds whenever the text field is not focused)
selectUp ==
    IF selectedQuest > 0 THEN selectedQuest - 1 ELSE selectedQuest

\* mutant: the selection moves down whether or not a quest is left below it
selectDownUnbounded == selectedQuest + 1

\* case "down", "j"
selectDown ==
    IF selectedQuest < Len(dQuests) - 1 THEN selectedQuest + 1 ELSE selectedQuest

\* the dashboard fields a key press leaves behind, and the command it dispatches
Unmoved ==
    [err |-> dErr, loading |-> dLoading, input |-> dInput,
     inputFocused |-> inputFocused, selectedQuest |-> selectedQuest,
     levelUp |-> levelUpVisible, group |-> groupVisible, cmd |-> Free]

keyResult(key) ==
    IF levelUpVisible THEN [Unmoved EXCEPT !.levelUp = FALSE]
    ELSE IF groupVisible THEN [Unmoved EXCEPT !.group = FALSE]
    ELSE
      LET cleared == [Unmoved EXCEPT !.err = NoError]
      IN  CASE key = "G" ->
                 IF dUser.inGroup
                 THEN [cleared EXCEPT !.cmd = Command("group", 0, 0, <<>>)]
                 ELSE [cleared EXCEPT !.group = TRUE]
            [] key = "enter" ->
                 IF inputFocused /\ dInput # <<>>
                 THEN [cleared EXCEPT !.loading = TRUE,
                                      !.cmd = Command("add", 0, 0, dInput)]
                 ELSE IF ~inputFocused /\ selectedQuest >= 0
                         /\ selectedQuest < Len(dQuests)
                 THEN [cleared EXCEPT !.cmd = handleQuestAction(selectedQuest)]
                 ELSE cleared
            [] key = "tab" ->
                 IF ~inputFocused
                 THEN [cleared EXCEPT !.inputFocused = TRUE, !.selectedQuest = -1]
                 ELSE [cleared EXCEPT !.inputFocused = FALSE,
                                      !.selectedQuest = IF Len(dQuests) > 0
                                                        THEN 0 ELSE selectedQuest]
            [] key = "esc" ->
                 IF inputFocused THEN [cleared EXCEPT !.input = <<>>] ELSE cleared
            [] OTHER ->
                 IF inputFocused
                 THEN [cleared EXCEPT !.input = inputUpdate(dInput, key)]
                 ELSE CASE key \in {"up", "k"} ->
                             [cleared EXCEPT !.selectedQuest = selectUp]
                        [] key \in {"down", "j"} ->
                             [cleared EXCEPT !.selectedQuest = selectDown]
                        [] key \in {"1", "2"} ->
                             IF DigitIndex(key) < Len(dQuests)
                             THEN [cleared EXCEPT
                                     !.cmd = handleQuestAction(DigitIndex(key))]
                             ELSE cleared
                        [] key = "a" ->
                             [cleared EXCEPT !.inputFocused = TRUE,
                                             !.selectedQuest = -1]
                        [] OTHER -> cleared

\* quests:create calls still to come from the add commands in flight
AddsToCome ==
    BagCardinality([c \in {d \in Commands : Running(d, "add")} |-> cmds[c]])

\* a quests:complete command for quest q is running or its message is pending
CompleteInFlight(q) ==
    \E c \in Commands : c.kind = "complete" /\ c.quest = q

\* case tea.KeyMsg, in a session that creates at most maxQuests quests
handleKeyWithin(key, maxQuests) ==
    LET r == keyResult(key)
        c == r.cmd
    IN  /\ c.kind # "free" => BagCardinality(cmds) < MaxInflight
        /\ c.kind = "add" => Len(sQuests) + AddsToCome < maxQuests
        /\ c.kind = "complete" => hist[c.quest].sent < MaxCompletes
        /\ dErr' = r.err
        /\ dLoading' = r.loading
        /\ dInput' = r.input
        /\ inputFocused' = r.inputFocused
        /\ selectedQuest' = r.selectedQuest
        /\ levelUpVisible' = r.levelUp
        /\ groupVisible' = r.group
        /\ cmds' = IF c.kind = "free" THEN cmds ELSE cmds (+) SetToBag({c})
        /\ hist' = IF c.kind = "complete"
                   THEN [hist EXCEPT ![c.quest].sent = @ + 1,
                                     ![c.quest].overlap =
                                         @ \/ CompleteInFlight(c.quest)]
                   ELSE hist
        /\ UNCHANGED <<storeVars, dUser, dQuests, dActivity, loads, otherVars>>

handleKey(key) == handleKeyWithin(key, MaxQuests)

KeyMsg == \E key \in Keys : handleKey(key)

(* ---- other clients of the store (a second session, the convex API) ---- *)

ApiStart(q) ==
    /\ Commit(questsStart(q))
    /\ UNCHANGED <<dashVars, loads, cmds, hist, otherVars>>

ApiComplete(q) ==
    /\ Commit(questsComplete(q))
    /\ UNCHANGED <<dashVars, loads, cmds, hist, otherVars>>

ApiRemove(q) ==
    /\ Commit(questsRemove(q))
    /\ UNCHANGED <<dashVars, loads, cmds, hist, otherVars>>

AddQuestRuns       == \E c \in Commands : RunAddQuest(c)
StartQuestRuns     == \E c \in Commands : RunStartQuest(c)
CompleteQuestRuns  == \E c \in Commands : RunCompleteQuest(c)
QuestAddedMsg      == \E c \in Commands : UpdateQuestAddedMsg(c)
QuestStartedMsg    == \E c \in Commands : UpdateQuestStartedMsg(c)
QuestCompletedMsg  == \E c \in Commands : UpdateQuestCompletedMsg(c)

Next ==
    \/ RunLoadUser
    \/ RunLoadQuests
    \/ UpdateUserLoadedMsg
    \/ UpdateQuestsLoadedMsg
    \/ KeyMsg
    \/ AddQuestRuns
    \/ StartQuestRuns
    \/ CompleteQuestRuns
    \/ QuestAddedMsg
    \/ QuestStartedMsg
    \/ QuestCompletedMsg
    \/ \E q \in 1..MaxQuests :
          \/ ApiStart(q)
          \/ ApiComplete(q)
          \/ ApiRemove(q)

Spec == Init /\ [][Next]_vars

(***************************************************************************)
(* SpecOnboard: a session from NewApp on, through the onboarding wizard    *)
(* and onto the dashboard                                                  *)
(***************************************************************************)

MaxField == 2
MaxCompleteMsgs == 2

\* the keys pressed on the onboarding screen, and those a text input inserts
OnboardKeys  == {"enter", "down", "k", "esc", "q", "ctrl+c", " "}
OnboardRunes == {" ", "k", "q"}
\* the keys pressed on the dashboard once the wizard is through
DashKeys == {"tab", "esc", "q", "ctrl+c"}

RECURSIVE TrimLeft(_)
TrimLeft(s) == IF s # <<>> /\ Head(s) = " " THEN TrimLeft(Tail(s)) ELSE s

RECURSIVE Reverse(_)
Reverse(s) == IF s = <<>> THEN <<>> ELSE Append(Reverse(Tail(s)), Head(s))

\* strings.TrimSpace
TrimSpace(s) == Reverse(TrimLeft(Reverse(TrimLeft(s))))

BlankOnlyEmpty(value) == value = <<>>
\* strings.TrimSpace(input.Value()) == ""
Blank(value) == TrimSpace(value) = <<>>

IsLoggedInIDOnly(cfg) == cfg.userID # ""
\* Config.IsLoggedIn
IsLoggedIn(cfg) == cfg.userID # "" /\ cfg.userName # <<>>

NewOnboardingModel == [NoOnboarding EXCEPT !.step = "StepWelcome"]

IgnoreInputNever(m) == FALSE
\* if m.loading { return m, nil }
IgnoreInput(m) == m.loading

\* textinput.Model.Update for a key message
textUpdate(value, focus, key) ==
    IF focus /\ key \in OnboardRunes /\ Len(value) < MaxField
    THEN Append(value, key) ELSE value

\* what Update returns: the model, the shared config and the command
Handled(m, cfg, cmd) == [m |-> m, config |-> cfg, cmd |-> cmd]

\* handleEnter; saved is whether auth.Save succeeds
handleEnter(m, cfg, saved) ==
    CASE m.step = "StepWelcome" ->
           Handled([m EXCEPT !.step = "StepName", !.nameFocus = TRUE,
                             !.focusedInput = 0], cfg, "none")
      [] m.step = "StepName" ->
           IF Blank(m.nameInput) THEN Handled(m, cfg, "none")
           ELSE Handled([m EXCEPT !.loading = TRUE, !.err = ""],
                        [cfg EXCEPT !.userName = TrimSpace(m.nameInput)],
                        "createUser")
      [] m.step = "StepGroupChoice" ->
           IF m.groupChoice = 0
           THEN Handled([m EXCEPT !.step = "StepCreateGroup", !.groupFocus = TRUE,
                                  !.focusedInput = 0], cfg, "none")
           ELSE Handled([m EXCEPT !.step = "StepJoinGroup", !.codeFocus = TRUE,
                                  !.focusedInput = 0], cfg, "none")
      [] m.step = "StepCreateGroup" ->
           IF Blank(m.groupInput) THEN Handled(m, cfg, "none")
           ELSE Handled([m EXCEPT !.loading = TRUE, !.err = ""],
                        [cfg EXCEPT !.groupName = TrimSpace(m.groupInput)],
                        "createGroup")
      [] m.step = "StepJoinGroup" ->
           IF Blank(m.codeInput) THEN Handled(m, cfg, "none")
           ELSE Handled([m EXCEPT !.codeFocus = FALSE, !.focusedInput = -1,
                                  !.step = "StepComplete"],
                        [cfg EXCEPT !.groupID = "joined-group",
                                    !.groupName = <<"Joined Group">>],
                        "none")
      [] m.step = "StepComplete" ->
           IF saved THEN Handled(m, cfg, "complete")
           ELSE Handled([m EXCEPT !.err = "save"], cfg, "none")
      [] OTHER -> Handled(m, cfg, "none")

\* the text input of the current step takes the message
updateTextInputs(m, key) ==
    CASE m.step = "StepName" ->
           [m EXCEPT !.nameInput = textUpdate(@, m.nameFocus, key)]
      [] m.step = "StepCreateGroup" ->
           [m EXCEPT !.groupInput = textUpdate(@, m.groupFocus, key)]
      [] m.step = "StepJoinGroup" ->
           [m EXCEPT !.codeInput = textUpdate(@, m.codeFocus, key)]
      [] OTHER -> m

\* OnboardingModel.Update, case tea.KeyMsg
UpdateKeyMsg(m, cfg, key, saved) ==
    IF IgnoreInput(m) THEN Handled(m, cfg, "none")
    ELSE IF key = "enter" THEN handleEnter(m, cfg, saved)
    ELSE LET moved ==
               CASE key \in {"up", "k"} /\ m.step = "StepGroupChoice" ->
                      [m EXCEPT !.groupChoice = 0]
                 [] key \in {"down", "j"} /\ m.step = "StepGroupChoice" ->
                      [m EXCEPT !.groupChoice = 1]
                 [] key = "esc" /\ m.focusedInput >= 0 ->
                      [m EXCEPT !.focusedInput = -1]
                 [] OTHER -> m
         IN  Handled(updateTextInputs(moved, key), cfg, "none")

\* a command of the onboarding screen, and the message its closure returns
OCommand(kind) ==
    [kind |-> kind, phase |-> IF kind = "complete" THEN "posted" ELSE "running",
     err |-> "", userID |-> "", groupID |-> "", inviteCode |-> ""]

OCommands == BagToSet(oCmds)

ORemote == {c \in OCommands : c.kind \in {"createUser", "createGroup"}}

OPost(c, m) == oCmds' = (oCmds (-) SetToBag({c})) (+) SetToBag({m})
OTake(c)    == oCmds' = oCmds (-) SetToBag({c})

Processed(kind, key, failed) ==
    [n |-> 1 - event.n, kind |-> kind, key |-> key,
     failed |-> event.failed \/ failed]

Alive == ~app.quit /\ ~app.panicked

\* App.Update, case tea.KeyMsg: ctrl+c quits, q quits unless a field has focus
Quits(key) ==
    \/ key = "ctrl+c"
    \/ /\ key = "q"
       /\ ~(app.screen = "onboarding" /\ onboarding.focusedInput >= 0)
       /\ ~(app.screen = "dashboard" /\ inputFocused)

InitOnboard ==
    /\ \E id \in {"", "old"}, name \in {<<>>, <<"a">>}, group \in {"", "group"} :
          /\ group # "" => id # ""
          /\ config = [userID |-> id, userName |-> name, groupID |-> group,
                       groupName |-> IF group = "" THEN <<>> ELSE <<"g">>]
    /\ disk = config
    /\ app = [screen |-> IF IsLoggedIn(config) THEN "dashboard" ELSE "onboarding",
              quit |-> FALSE, panicked |-> FALSE]
    /\ onboarding = IF IsLoggedIn(config) THEN NoOnboarding ELSE NewOnboardingModel
    /\ oCmds = EmptyBag
    /\ event = NoEvent
    /\ sUser = [totalXp |-> 0, weeklyXp |-> 0, level |-> 1,
                inGroup |-> config.groupID # ""]
    /\ sQuests = <<>>
    /\ sActivity = <<>>
    /\ dUser = [totalXp |-> 0, weeklyXp |-> 0, level |-> 1,
                inGroup |-> config.groupID # ""]
    /\ dQuests = <<>>
    /\ dActivity = <<>>
    /\ dErr = NoError
    /\ dLoading = FALSE
    /\ dInput = <<>>
    /\ inputFocused = TRUE
    /\ selectedQuest = -1
    /\ levelUpVisible = FALSE
    /\ groupVisible = FALSE
    /\ LET phase == IF IsLoggedIn(config) THEN "running" ELSE "none"
       IN  loads = [user   |-> [phase |-> phase, err |-> NoError, user |-> dUser],
                    quests |-> [phase |-> phase, err |-> NoError, quests |-> <<>>]]
    /\ cmds = EmptyBag
    /\ hist = [q \in 1..MaxQuests |-> NoHist]
    /\ XPIdle /\ LevelIdle /\ InsightIdle
    /\ AnimIdle
    /\ GroupsIdle
    /\ refresh = IF IsLoggedIn(config) THEN tickActivity(NoTimer) ELSE NoTimer
    /\ polls = IF IsLoggedIn(config) THEN LoadActivityAndStats ELSE EmptyBag
    /\ dStats = NoStats

\* App.Update for a key on the onboarding screen
OnboardingKeyMsg ==
    /\ Alive
    /\ app.screen = "onboarding"
    /\ \E key \in OnboardKeys, saved \in BOOLEAN :
          /\ event' = Processed("key", key, FALSE)
          /\ IF Quits(key)
             THEN /\ app' = [app EXCEPT !.quit = TRUE]
                  /\ UNCHANGED <<config, disk, onboarding, oCmds>>
             ELSE LET r == UpdateKeyMsg(onboarding, config, key, saved)
                  IN  /\ r.cmd = "complete" =>
                            CopiesIn(OCommand("complete"), oCmds) < MaxCompleteMsgs
                      /\ onboarding' = r.m
                      /\ config' = r.config
                      /\ disk' = IF r.cmd = "complete" THEN r.config ELSE disk
                      /\ oCmds' = IF r.cmd = "none" THEN oCmds
                                  ELSE oCmds (+) SetToBag({OCommand(r.cmd)})
                      /\ UNCHANGED app
    /\ UNCHANGED <<storeVars, dashVars, loads, cmds, hist, pureVars, animVars>>

\* the closure of createUserCmd (users:create)
RunCreateUser(c) ==
    /\ Alive
    /\ c.kind = "createUser" /\ c.phase = "running"
    /\ \E outcome \in {"ok", "lost", "timeout", "shape"} :
          /\ sUser' = IF outcome = "lost" THEN sUser
                      ELSE [totalXp |-> 0, weeklyXp |-> 0, level |-> 1,
                            inGroup |-> FALSE]
          /\ OPost(c, CASE outcome = "ok" ->
                             [c EXCEPT !.phase = "posted", !.userID = "user"]
                        [] outcome = "shape" ->
                             [c EXCEPT !.phase = "posted",
                                       !.err = "unexpected response type"]
                        [] OTHER ->
                             [c EXCEPT !.phase = "posted", !.err = HttpError])
    /\ UNCHANGED <<sQuests, sActivity, dashVars, loads, cmds, hist, pureVars, animVars,
                   app, config, disk, onboarding, event>>

\* the closure of createGroupCmd (groups:create); a map without the fields
\* yields empty strings
RunCreateGroup(c) ==
    /\ Alive
    /\ c.kind = "createGroup" /\ c.phase = "running"
    /\ \E outcome \in {"ok", "lost", "timeout", "shape", "fields"} :
          /\ sUser' = IF outcome = "lost" THEN sUser
                      ELSE [sUser EXCEPT !.inGroup = TRUE]
          /\ OPost(c, CASE outcome = "ok" ->
                             [c EXCEPT !.phase = "posted", !.groupID = "group",
                                       !.inviteCode = "ABC-234"]
                        [] outcome = "fields" ->
                             [c EXCEPT !.phase = "posted"]
                        [] outcome = "shape" ->
                             [c EXCEPT !.phase = "posted",
                                       !.err = "unexpected response type"]
                        [] OTHER ->
                             [c EXCEPT !.phase = "posted", !.err = HttpError])
    /\ UNCHANGED <<sQuests, sActivity, dashVars, loads, cmds, hist, pureVars, animVars,
                   app, config, disk, onboarding, event>>

\* OnboardingModel.Update, case UserCreatedMsg; the dashboard drops the message
UpdateUserCreatedMsg(c) ==
    /\ Alive
    /\ c.kind = "createUser" /\ c.phase = "posted"
    /\ OTake(c)
    /\ event' = Processed("UserCreatedMsg", "", c.err # "")
    /\ IF app.screen # "onboarding"
       THEN UNCHANGED <<onboarding, config>>
       ELSE IF c.err # ""
       THEN /\ onboarding' = [onboarding EXCEPT !.loading = FALSE, !.err = c.err]
            /\ UNCHANGED config
       ELSE /\ onboarding' = [onboarding EXCEPT !.loading = FALSE,
                                                !.nameFocus = FALSE,
                                                !.focusedInput = -1,
                                                !.step = "StepGroupChoice"]
            /\ config' = [config EXCEPT !.userID = c.userID]
    /\ UNCHANGED <<storeVars, dashVars, loads, cmds, hist, pureVars, animVars, app, disk>>

\* OnboardingModel.Update, case GroupCreatedMsg
UpdateGroupCreatedMsg(c) ==
    /\ Alive
    /\ c.kind = "createGroup" /\ c.phase = "posted"
    /\ OTake(c)
    /\ event' = Processed("GroupCreatedMsg", "", c.err # "")
    /\ IF app.screen # "onboarding"
       THEN UNCHANGED <<onboarding, config>>
       ELSE IF c.err # ""
       THEN /\ onboarding' = [onboarding EXCEPT !.loading = FALSE, !.err = c.err]
            /\ UNCHANGED config
       ELSE /\ onboarding' = [onboarding EXCEPT !.loading = FALSE,
                                                !.inviteCode = c.inviteCode,
                                                !.groupFocus = FALSE,
                                                !.focusedInput = -1,
                                                !.step = "StepComplete"]
            /\ config' = [config EXCEPT !.groupID = c.groupID]
    /\ UNCHANGED <<storeVars, dashVars, loads, cmds, hist, pureVars, animVars, app, disk>>

\* App.Update, case OnboardingCompleteMsg: a new dashboard, and its Init.
\* msg.Config is the pointer a.config already holds.  The loadUser and
\* loadQuests of a dashboard this one replaces are not followed further; its
\* refresh timer and refresh commands stay, and their messages go to the new
\* dashboard.
UpdateOnboardingCompleteMsg(c) ==
    /\ Alive
    /\ c.kind = "complete" /\ c.phase = "posted"
    /\ OTake(c)
    /\ event' = Processed("OnboardingCompleteMsg", "", FALSE)
    /\ app' = [app EXCEPT !.screen = "dashboard"]
    /\ dUser' = [totalXp |-> 0, weeklyXp |-> 0, level |-> 1,
                 inGroup |-> config.groupID # ""]
    /\ dQuests' = <<>>
    /\ dActivity' = <<>>
    /\ dErr' = NoError
    /\ dLoading' = FALSE
    /\ dInput' = <<>>
    /\ inputFocused' = TRUE
    /\ selectedQuest' = -1
    /\ levelUpVisible' = FALSE
    /\ groupVisible' = FALSE
    /\ loads' = [user   |-> [phase |-> "running", err |-> NoError, user |-> dUser'],
                 quests |-> [phase |-> "running", err |-> NoError, quests |-> <<>>]]
    /\ refresh' = tickActivity(refresh)
    /\ polls' = polls (+) LoadActivityAndStats
    /\ dStats' = NoStats
    /\ UNCHANGED <<storeVars, cmds, hist, animVars, config, disk, onboarding,
                   title, xpResult, currentXP, levelResult, members, draw, ai,
                   insightType, groupVars>>

\* App.Update for a key on the dashboard
DashboardKeyMsg ==
    /\ Alive
    /\ app.screen = "dashboard"
    /\ \E key \in DashKeys :
          IF Quits(key)
          THEN /\ app' = [app EXCEPT !.quit = TRUE]
               /\ UNCHANGED <<storeVars, dashVars, loads, cmds, hist, pureVars, animVars,
                              config, disk, onboarding, oCmds, event>>
          ELSE handleKey(key)

UserCreationRuns      == \E c \in OCommands : RunCreateUser(c)
GroupCreationRuns     == \E c \in OCommands : RunCreateGroup(c)
UserCreatedMsg        == \E c \in OCommands : UpdateUserCreatedMsg(c)
GroupCreatedMsg       == \E c \in OCommands : UpdateGroupCreatedMsg(c)
OnboardingCompleteMsg == \E c \in OCommands : UpdateOnboardingCompleteMsg(c)
DashboardLoadsUser    == Alive /\ app.screen = "dashboard" /\ RunLoadUser
DashboardLoadsQuests  == Alive /\ app.screen = "dashboard" /\ RunLoadQuests
DashboardUserLoaded   == Alive /\ app.screen = "dashboard" /\ UpdateUserLoadedMsg
DashboardQuestsLoaded == Alive /\ app.screen = "dashboard" /\ UpdateQuestsLoadedMsg

NextOnboard ==
    \/ OnboardingKeyMsg
    \/ UserCreationRuns
    \/ GroupCreationRuns
    \/ UserCreatedMsg
    \/ GroupCreatedMsg
    \/ OnboardingCompleteMsg
    \/ DashboardKeyMsg
    \/ DashboardLoadsUser
    \/ DashboardLoadsQuests
    \/ DashboardUserLoaded
    \/ DashboardQuestsLoaded

SpecOnboard == InitOnboard /\ [][NextOnboard]_vars

(***************************************************************************)
(* SpecKeys: one key, pressed in every state the dashboard can show        *)
(***************************************************************************)

MaxListed == 2

AllKeys == {"enter", "tab", "esc", "up", "down", "j", "k", "1", "2", "a", "G", "q",
            "x", "ctrl+c"}

Statuses == {"pending", "in_progress", "completed"}

\* the cached quest lists: quests 1..n of the day, each in some status
QuestLists ==
    UNION {[1..n -> Statuses] : n \in 0..MaxListed}

\* a dashboard in any state it can show, about to be sent one key
DrawnDashboard ==
    /\ \E key \in AllKeys :
          event = [n |-> 0, kind |-> "key", key |-> key, failed |-> FALSE]
    /\ app = [screen |-> "dashboard", quit |-> FALSE, panicked |-> FALSE]
    /\ config = LoggedIn
    /\ disk = LoggedIn
    /\ onboarding = NoOnboarding
    /\ oCmds = EmptyBag
    /\ \E inGroup \in BOOLEAN :
          /\ sUser = [totalXp |-> 0, weeklyXp |-> 0, level |-> 1, inGroup |-> inGroup]
          /\ dUser = sUser
    /\ sQuests = <<>>
    /\ sActivity = <<>>
    /\ \E list \in QuestLists :
          dQuests = [k \in 1..Len(list) |-> [id |-> k, xp |-> 10, status |-> list[k]]]
    /\ dActivity = <<>>
    /\ dLoading = FALSE
    /\ dInput \in {<<>>, <<"a">>}
    /\ inputFocused \in BOOLEAN
    /\ selectedQuest \in -1..(Len(dQuests) - 1)
    /\ inputFocused => selectedQuest = -1
    /\ levelUpVisible \in BOOLEAN
    /\ groupVisible \in BOOLEAN
    /\ loads = [user   |-> [phase |-> "done", err |-> NoError, user |-> dUser],
                quests |-> [phase |-> "done", err |-> NoError, quests |-> <<>>]]
    /\ hist = [q \in 1..MaxListed |-> NoHist]
    /\ XPIdle /\ LevelIdle /\ InsightIdle
    /\ AnimIdle
    /\ GroupsIdle
    /\ PollIdle

InitKeys ==
    /\ DrawnDashboard
    /\ dErr \in {NoError, HttpError}
    /\ cmds = EmptyBag

\* App.Update for the key message, then DashboardModel.Update
PressKey ==
    /\ Alive
    /\ IF Quits(event.key)
       THEN /\ app' = [app EXCEPT !.quit = TRUE]
            /\ UNCHANGED <<storeVars, dashVars, loads, cmds, hist, pureVars, animVars,
                           config, disk, onboarding, oCmds, event>>
       ELSE handleKey(event.key)

NextKeys == PressKey

SpecKeys == InitKeys /\ [][NextKeys]_vars

(***************************************************************************)
(* SpecErr: the message of a failed command is waiting in the loop of a    *)
(* dashboard in any state; it is delivered, and one key is pressed          *)
(***************************************************************************)

\* the QuestStartedMsg and QuestCompletedMsg of a request for the first quest
\* of the list that got no answer
FailedMsgs ==
    {[Command(kind, 1, 10, <<>>) EXCEPT
         !.posted = TRUE, !.msg = [NoMsg EXCEPT !.err = HttpError, !.quest = 1]] :
       kind \in {"start", "complete"}}

InitErr ==
    /\ DrawnDashboard
    /\ Len(dQuests) >= 1
    /\ dErr = NoError
    /\ \E c \in FailedMsgs : cmds = SetToBag({c})

NextErr ==
    \/ PressKey
    \/ QuestStartedMsg
    \/ QuestCompletedMsg

SpecErr == InitErr /\ [][NextErr]_vars

(***************************************************************************)
(* SpecAnim: the animation sequencer of the dashboard.  Completions arrive *)
(* with drawn results; the quest list and the feed are followed in Spec.   *)
(***************************************************************************)

QuestFlashTicks == 6
MaxTicks == 60
MaxTriggers == 2
EarnedXPs == {10, 60}

\* TriggerQuestFlash
TriggerQuestFlash(a) == [a EXCEPT !.FlashTicks = QuestFlashTicks]

\* TriggerXPGain
TriggerXPGain(a, amount, newTotal) ==
    [a EXCEPT !.TargetXP = newTotal,
              !.XPTickRate = IF amount > 50 THEN 10
                             ELSE IF amount > 20 THEN 5 ELSE 2]

\* IsAnimating
IsAnimating(a) == a.DisplayedXP < a.TargetXP \/ a.FlashTicks > 0

\* mutant: Update returns a tick whether or not anything moved
AnimationUpdateAlwaysTicks(a) ==
    [a |-> [a EXCEPT !.DisplayedXP = IF a.DisplayedXP < a.TargetXP
                                     THEN Min(a.DisplayedXP + a.XPTickRate, a.TargetXP)
                                     ELSE a.DisplayedXP,
                     !.FlashTicks = IF a.FlashTicks > 0 THEN a.FlashTicks - 1
                                    ELSE a.FlashTicks],
     cmds |-> 1]

\* AnimationState.Update: the state it leaves and the ticks it schedules
AnimationUpdate(a) ==
    [a |-> [a EXCEPT !.DisplayedXP = IF a.DisplayedXP < a.TargetXP
                                     THEN Min(a.DisplayedXP + a.XPTickRate, a.TargetXP)
                                     ELSE a.DisplayedXP,
                     !.FlashTicks = IF a.FlashTicks > 0 THEN a.FlashTicks - 1
                                    ELSE a.FlashTicks],
     cmds |-> IF a.DisplayedXP < a.TargetXP \/ a.FlashTicks > 0 THEN 1 ELSE 0]

\* mutant: the modal is hidden one tick late
LevelUpModalUpdateLate(visible, t) ==
    IF ~visible THEN [visible |-> FALSE, ticks |-> t, cmds |-> 0]
    ELSE IF t + 1 > MaxTicks THEN [visible |-> FALSE, ticks |-> t + 1, cmds |-> 0]
    ELSE [visible |-> TRUE, ticks |-> t + 1, cmds |-> 1]

\* LevelUpModal.Update (AutoDismiss is always true)
LevelUpModalUpdate(visible, t) ==
    IF ~visible THEN [visible |-> FALSE, ticks |-> t, cmds |-> 0]
    ELSE IF t + 1 >= MaxTicks THEN [visible |-> FALSE, ticks |-> t + 1, cmds |-> 0]
    ELSE [visible |-> TRUE, ticks |-> t + 1, cmds |-> 1]

InitAnim ==
    /\ MainIdle
    /\ XPIdle /\ LevelIdle /\ InsightIdle

\* case QuestCompletedMsg without an error: the user's XP, the flash, the XP
\* roll-up, the modal on a level-up, and the ticks it starts
AnimQuestCompletedMsg ==
    /\ triggers < MaxTriggers
    /\ \E xpEarned \in EarnedXPs, levelUp \in BOOLEAN :
          LET total == dUser.totalXp + xpEarned
              a     == TriggerXPGain(TriggerQuestFlash(animation), xpEarned, total)
          IN  /\ dUser' = [dUser EXCEPT !.totalXp = total,
                                         !.weeklyXp = @ + xpEarned,
                                         !.level = GetLevel(total)]
              /\ animation' = a
              /\ levelUpVisible' = (levelUp \/ levelUpVisible)
              /\ modalTicks' = IF levelUp THEN 0 ELSE modalTicks
              /\ ticks' = ticks + (IF levelUp THEN 1 ELSE 0)
                                + (IF IsAnimating(a) THEN 1 ELSE 0)
    /\ triggers' = triggers + 1
    /\ event' = Processed("QuestCompletedMsg", "", FALSE)
    /\ UNCHANGED <<storeVars, dQuests, dActivity, dErr, dLoading, dInput,
                   inputFocused, selectedQuest, groupVisible, loads, cmds, hist,
                   pureVars, app, config, disk, onboarding, oCmds>>

\* case components.AnimationTickMsg
AnimationTick ==
    /\ ticks > 0
    /\ LET u == AnimationUpdate(animation)
           l == LevelUpModalUpdate(levelUpVisible, modalTicks)
       IN  /\ animation' = u.a
           /\ levelUpVisible' = l.visible
           /\ modalTicks' = l.ticks
           /\ ticks' = ticks - 1 + u.cmds + l.cmds
    /\ event' = Processed("AnimationTickMsg", "", FALSE)
    /\ UNCHANGED <<storeVars, dUser, dQuests, dActivity, dErr, dLoading, dInput,
                   inputFocused, selectedQuest, groupVisible, loads, cmds, hist,
                   pureVars, triggers, app, config, disk, onboarding, oCmds>>

\* a key press while the level-up modal is up: handleKey hides it
AnimKeyMsg ==
    /\ levelUpVisible
    /\ levelUpVisible' = FALSE
    /\ event' = Processed("key", "x", FALSE)
    /\ UNCHANGED <<storeVars, dUser, dQuests, dActivity, dErr, dLoading, dInput,
                   inputFocused, selectedQuest, groupVisible, loads, cmds, hist,
                   pureVars, animVars, app, config, disk, onboarding, oCmds>>

NextAnim ==
    \/ AnimQuestCompletedMsg
    \/ AnimationTick
    \/ AnimKeyMsg

SpecAnim == InitAnim /\ [][NextAnim]_vars

\* tea.Tick fires after 50 ms and the event loop takes every message it is
\* sent: a tick that is pending is processed
SpecAnimFair == SpecAnim /\ WF_vars(AnimationTick)

(***************************************************************************)
(* SpecRemote: the closures of the ten asynchronous commands, run against  *)
(* every answer the remote side can give.  The store answers as in Spec;   *)
(* what Update does with the messages is followed in Spec and SpecOnboard. *)
(***************************************************************************)

MaxDispatched == 2

RemoteKinds ==
    {"loadUser", "loadQuests", "loadActivity", "loadStats", "loadGroupInfo",
     "addQuest", "startQuest", "completeQuest", "createUser", "createGroup"}

\* what a call can come back with: the decoded value as expected, an error
\* from the remote side, no answer before the deadline, a value of another
\* type than the one expected, a value of the expected type without the
\* fields the command reads
RemoteOutcomes == {"ok", "error", "timeout", "shape", "fields"}

RemoteTitles == {<<"c","a","l","l">>, <<"S","h","i","p">>}

RemoteMsg ==
    [err |-> NoError, empty |-> FALSE, xp |-> 0, reasoning |-> "", quest |-> 0,
     status |-> "", levelUp |-> FALSE]

RemoteCommand(id, kind, t) ==
    [id |-> id, kind |-> kind, title |-> t, phase |-> "running",
     ai |-> "", remote |-> "", msg |-> RemoteMsg]

RemoteCommands == BagToSet(cmds)

RemoteRunning(c, kind) == c.kind = kind /\ c.phase = "running"

\* the closure returns m, and the runtime sends it to the event loop
Returns(c, o, m) ==
    /\ cmds' = (cmds (-) SetToBag({c}))
                 (+) SetToBag({[c EXCEPT !.phase = "posted", !.remote = o, !.msg = m]})
    /\ hist' = [hist EXCEPT ![c.id] = @ + 1]
    /\ UNCHANGED app

\* a failed type assertion x.(T) panics in the command's goroutine: the
\* program ends and no message is sent
Panics(c, o) ==
    /\ cmds' = (cmds (-) SetToBag({c}))
                 (+) SetToBag({[c EXCEPT !.phase = "panicked", !.remote = o]})
    /\ app' = [app EXCEPT !.panicked = TRUE]
    /\ UNCHANGED hist

Err(message) == [RemoteMsg EXCEPT !.err = message]

InitRemote ==
    /\ MainIdle
    /\ XPIdle /\ LevelIdle /\ InsightIdle

\* some handler dispatches a command
DispatchRemote ==
    /\ Alive
    /\ BagCardinality(cmds) < MaxDispatched
    /\ \E kind \in RemoteKinds, t \in RemoteTitles :
          /\ kind # "addQuest" => t = <<"c","a","l","l">>
          /\ cmds' = cmds (+) SetToBag({RemoteCommand(BagCardinality(cmds) + 1, kind, t)})
    /\ hist' = [id \in 1..BagCardinality(cmds') |-> IF id \in DOMAIN hist THEN hist[id] ELSE 0]
    /\ UNCHANGED <<storeVars, dashVars, loads, otherVars>>

\* a query whose record the closure reads with unchecked assertions:
\* loadUser (users:get), and per element loadQuests and loadActivity
RunsUncheckedQuery(c, kind) ==
    /\ Alive
    /\ RemoteRunning(c, kind)
    /\ \E o \in RemoteOutcomes :
          CASE o = "ok"     -> Returns(c, o, RemoteMsg)
            [] o = "shape"  -> Returns(c, o, [RemoteMsg EXCEPT !.empty = TRUE])
            [] o = "fields" -> Panics(c, o)
            [] OTHER        -> Returns(c, o, Err(HttpError))
    /\ UNCHANGED <<storeVars, dashVars, loads, pureVars, animVars,
                   config, disk, onboarding, oCmds, event>>

RemoteLoadUser(c)     == RunsUncheckedQuery(c, "loadUser")
RemoteLoadQuests(c)   == RunsUncheckedQuery(c, "loadQuests")
RemoteLoadActivity(c) == RunsUncheckedQuery(c, "loadActivity")

\* loadStats: dashboard:getStatsWithInsight, and dashboard:getStats if that fails
RemoteLoadStats(c) ==
    /\ Alive
    /\ RemoteRunning(c, "loadStats")
    /\ \E first \in RemoteOutcomes, second \in RemoteOutcomes :
          LET o == IF first \in {"error", "timeout"} THEN second ELSE first
          IN  CASE o = "ok"     -> Returns(c, o, RemoteMsg)
                [] o = "shape"  -> Returns(c, o, [RemoteMsg EXCEPT !.empty = TRUE])
                [] o = "fields" -> Panics(c, o)
                [] OTHER        -> Returns(c, o, Err(HttpError))
    /\ UNCHANGED <<storeVars, dashVars, loads, pureVars, animVars,
                   config, disk, onboarding, oCmds, event>>

\* loadGroupInfo: groups:get, read with checked assertions
RemoteLoadGroupInfo(c) ==
    /\ Alive
    /\ RemoteRunning(c, "loadGroupInfo")
    /\ \E o \in RemoteOutcomes :
          CASE o = "ok"     -> Returns(c, o, RemoteMsg)
            [] o = "shape"  -> Returns(c, o, Err("invalid response"))
            [] o = "fields" -> Returns(c, o, [RemoteMsg EXCEPT !.empty = TRUE])
            [] OTHER        -> Returns(c, o, Err(HttpError))
    /\ UNCHANGED <<storeVars, dashVars, loads, pureVars, animVars,
                   config, disk, onboarding, oCmds, event>>

\* the store ran the mutation: always when it answered, never when the call
\* failed before it, possibly when the answer did not come in time
Applied(o, applied) ==
    /\ o \in {"ok", "shape", "fields"} => applied
    /\ o = "error" => ~applied

\* addQuest: ai:evaluateQuest, then quests:create under the same 30 s context.
\* store is the answer quests:create would give; it is not asked once the
\* context has expired
RemoteAddQuest(c) ==
    /\ Alive
    /\ RemoteRunning(c, "addQuest")
    /\ \E aiOutcome \in RemoteOutcomes, aiXP \in AiXPs,
          store \in RemoteOutcomes, applied \in BOOLEAN :
          LET evaluated == aiOutcome = "ok"
              xp        == IF evaluated THEN aiXP ELSE estimateXP(c.title)
              reasoning == IF evaluated THEN "ai" ELSE "local estimate"
              expired   == aiOutcome = "timeout"
              o         == IF expired THEN "timeout" ELSE store
              r         == questsCreate(xp)
              quest     == [RemoteMsg EXCEPT !.xp = xp, !.reasoning = reasoning,
                                             !.status = "pending"]
          IN  /\ Applied(store, applied)
              /\ IF aiOutcome = "fields"
                 THEN /\ app' = [app EXCEPT !.panicked = TRUE]
                      /\ UNCHANGED hist
                      /\ cmds' = (cmds (-) SetToBag({c}))
                                   (+) SetToBag({[c EXCEPT !.phase = "panicked",
                                                           !.ai = aiOutcome,
                                                           !.remote = store]})
                      /\ UNCHANGED storeVars
                 ELSE /\ IF applied /\ ~expired THEN Commit(r) ELSE UNCHANGED storeVars
                      /\ hist' = [hist EXCEPT ![c.id] = @ + 1]
                      /\ UNCHANGED app
                      /\ cmds' = (cmds (-) SetToBag({c})) (+) SetToBag({
                           [c EXCEPT
                              !.phase = "posted", !.ai = aiOutcome, !.remote = store,
                              !.msg = CASE o = "ok" ->
                                             [quest EXCEPT !.quest = r.value.questId]
                                        [] o = "fields" -> quest
                                        [] o = "shape" ->
                                             Err("invalid response from create")
                                        [] OTHER -> Err("failed to save quest")]})
    /\ UNCHANGED <<dashVars, loads, pureVars, animVars,
                   config, disk, onboarding, oCmds, event>>

\* the answer to a mutation whose handler returned r
Answered(o, applied, r) ==
    IF applied /\ r.err # "" /\ o \in {"ok", "shape", "fields"} THEN "error" ELSE o

\* startQuest: quests:start; the value returned is not looked at
RemoteStartQuest(c) ==
    /\ Alive
    /\ RemoteRunning(c, "startQuest")
    /\ \E store \in RemoteOutcomes, applied \in BOOLEAN :
          LET r == questsStart(1)
              o == Answered(store, applied, r)
          IN  /\ Applied(store, applied)
              /\ IF applied THEN Commit(r) ELSE UNCHANGED storeVars
              /\ Returns(c, o, IF o \in {"error", "timeout"}
                               THEN Err(IF o = "error" /\ applied THEN r.err
                                        ELSE HttpError)
                               ELSE [RemoteMsg EXCEPT !.quest = 1])
    /\ UNCHANGED <<dashVars, loads, pureVars, animVars,
                   config, disk, onboarding, oCmds, event>>

\* completeQuest: quests:complete; xpEarned is read with an unchecked assertion
RemoteCompleteQuest(c) ==
    /\ Alive
    /\ RemoteRunning(c, "completeQuest")
    /\ \E store \in RemoteOutcomes, applied \in BOOLEAN :
          LET r == questsComplete(1)
              o == Answered(store, applied, r)
          IN  /\ Applied(store, applied)
              /\ IF applied THEN Commit(r) ELSE UNCHANGED storeVars
              /\ CASE o = "ok" ->
                        Returns(c, o, [RemoteMsg EXCEPT !.quest = 1,
                                                        !.xp = r.value.xpEarned,
                                                        !.levelUp = r.value.leveledUp])
                   [] o = "shape" ->
                        Returns(c, o, [RemoteMsg EXCEPT !.quest = 1, !.xp = 10])
                   [] o = "fields" -> Panics(c, o)
                   [] OTHER ->
                        Returns(c, o, Err(IF o = "error" /\ applied THEN r.err
                                          ELSE HttpError))
    /\ UNCHANGED <<dashVars, loads, pureVars, animVars,
                   config, disk, onboarding, oCmds, event>>

\* createUserCmd: users:create returns the ID, a string without fields
RemoteCreateUser(c) ==
    /\ Alive
    /\ RemoteRunning(c, "createUser")
    /\ \E o \in RemoteOutcomes \ {"fields"} :
          CASE o = "ok"    -> Returns(c, o, RemoteMsg)
            [] o = "shape" -> Returns(c, o, Err("unexpected response type"))
            [] OTHER       -> Returns(c, o, Err(HttpError))
    /\ UNCHANGED <<storeVars, dashVars, loads, pureVars, animVars,
                   config, disk, onboarding, oCmds, event>>

\* createGroupCmd: groups:create, read with checked assertions
RemoteCreateGroup(c) ==
    /\ Alive
    /\ RemoteRunning(c, "createGroup")
    /\ \E o \in RemoteOutcomes :
          CASE o = "ok"     -> Returns(c, o, RemoteMsg)
            [] o = "shape"  -> Returns(c, o, Err("unexpected response type"))
            [] o = "fields" -> Returns(c, o, [RemoteMsg EXCEPT !.empty = TRUE])
            [] OTHER        -> Returns(c, o, Err(HttpError))
    /\ UNCHANGED <<storeVars, dashVars, loads, pureVars, animVars,
                   config, disk, onboarding, oCmds, event>>

\* the loop accepts input: tab, on the dashboard NewDashboardModel built
RemoteKeyMsg ==
    /\ Alive
    /\ inputFocused' = ~inputFocused
    /\ UNCHANGED <<storeVars, dUser, dQuests, dActivity, dErr, dLoading, dInput,
                   selectedQuest, levelUpVisible, groupVisible, loads, cmds, hist,
                   otherVars>>

LoadUserRuns      == \E c \in RemoteCommands : RemoteLoadUser(c)
LoadQuestsRuns    == \E c \in RemoteCommands : RemoteLoadQuests(c)
LoadActivityRuns  == \E c \in RemoteCommands : RemoteLoadActivity(c)
LoadStatsRuns     == \E c \in RemoteCommands : RemoteLoadStats(c)
LoadGroupInfoRuns == \E c \in RemoteCommands : RemoteLoadGroupInfo(c)
AddQuestCalls     == \E c \in RemoteCommands : RemoteAddQuest(c)
StartQuestCalls   == \E c \in RemoteCommands : RemoteStartQuest(c)
CompleteQuestCalls == \E c \in RemoteCommands : RemoteCompleteQuest(c)
CreateUserCalls   == \E c \in RemoteCommands : RemoteCreateUser(c)
CreateGroupCalls  == \E c \in RemoteCommands : RemoteCreateGroup(c)

NextRemote ==
    \/ DispatchRemote
    \/ LoadUserRuns
    \/ LoadQuestsRuns
    \/ LoadActivityRuns
    \/ LoadStatsRuns
    \/ LoadGroupInfoRuns
    \/ AddQuestCalls
    \/ StartQuestCalls
    \/ CompleteQuestCalls
    \/ CreateUserCalls
    \/ CreateGroupCalls
    \/ RemoteKeyMsg

SpecRemote == InitRemote /\ [][NextRemote]_vars

(***************************************************************************)
(* SpecGroups: the groups of the store, called by any client, and the join *)
(* subcommand of the command line, which writes the local configuration    *)
(***************************************************************************)

\* users rows in the store
MaxUsers == 2
\* groups:create calls
MaxGroups == 2
\* joined_group rows the activity table takes
MaxJoined == 2

\* const chars in generateInviteCode
InviteChars ==
    <<"A","B","C","D","E","F","G","H","J","K","L","M","N","P","Q","R",
      "S","T","U","V","W","X","Y","Z","2","3","4","5","6","7","8","9">>

\* the six values of Math.floor(Math.random() * chars.length) of one call: the
\* two ends of the alphabet, and the neighbours of the glyphs it leaves out
CodeDraws ==
    {<<0, 0, 0, 0, 0, 0>>, <<7, 8, 12, 13, 23, 24>>, <<31, 30, 0, 24, 31, 31>>}

\* generateInviteCode, for the six random draws
generateInviteCode(draws) ==
    LET code == [i \in 1..6 |-> InviteChars[draws[i] + 1]]
    IN  SubSeq(code, 1, 3) \o <<"-">> \o SubSeq(code, 4, 6)

\* String.prototype.toUpperCase and strings.ToUpper on the ASCII letters
ToUpper(s) ==
    [i \in 1..Len(s) |->
        IF \E k \in 1..26 : LowerCase[k] = s[i]
        THEN UpperCase[CHOOSE k \in 1..26 : LowerCase[k] = s[i]]
        ELSE s[i]]

\* the result of a handler that throws
GroupThrow(message) ==
    [err |-> message, groups |-> gGroups, users |-> gUsers, activity |-> gActivity]

JoinedGroup(userId, groupId) ==
    [type |-> "joined_group", userId |-> userId, groupId |-> groupId]

\* groups:create
groupsCreate(createdBy, draws) ==
    LET inviteCode == generateInviteCode(draws)
        groupId    == Len(gGroups) + 1
    IN  [err      |-> "",
         groups   |-> Append(gGroups, [inviteCode |-> inviteCode,
                                       createdBy |-> createdBy]),
         users    |-> [gUsers EXCEPT ![createdBy] = groupId],
         activity |-> gActivity]

\* the rows the index by_invite_code holds for a code
byInviteCode(inviteCode) ==
    {g \in 1..Len(gGroups) : gGroups[g].inviteCode = inviteCode}

\* groups:join; .unique() throws when more than one row matches
groupsJoin(userId, inviteCode) ==
    LET found == byInviteCode(ToUpper(inviteCode))
    IN  IF Cardinality(found) > 1
        THEN GroupThrow("unique() query returned more than one result")
        ELSE IF found = {} THEN GroupThrow("Invalid invite code")
        ELSE IF gUsers[userId] # 0 THEN GroupThrow("Already in a group")
        ELSE LET group == CHOOSE g \in found : TRUE
             IN  [err      |-> "",
                  groups   |-> gGroups,
                  users    |-> [gUsers EXCEPT ![userId] = group],
                  activity |-> Append(gActivity, JoinedGroup(userId, group))]

\* users:joinGroup
usersJoinGroup(userId, groupId) ==
    [err      |-> "",
     groups   |-> gGroups,
     users    |-> [gUsers EXCEPT ![userId] = groupId],
     activity |-> Append(gActivity, JoinedGroup(userId, groupId))]

\* strings.ReplaceAll(code, "-", "")
RemoveDashes(code) == SelectSeq(code, LAMBDA ch : ch # "-")

\* runJoin: the configuration it leaves and the error line it prints
runJoin(cfg, arg) ==
    IF ~cfg.loggedIn
    THEN [cfg |-> cfg, err |-> "Not logged in. Run 'grind' to set up first."]
    ELSE IF cfg.GroupID # <<>>
    THEN [cfg |-> cfg, err |-> "Already in a group"]
    ELSE LET bare == RemoveDashes(ToUpper(TrimSpace(arg)))
             code == IF Len(bare) = 6
                     THEN SubSeq(bare, 1, 3) \o <<"-">> \o SubSeq(bare, 4, 6)
                     ELSE bare
         IN  [cfg |-> [cfg EXCEPT !.GroupID = <<"g","r","o","u","p","_">> \o code,
                                  !.GroupName = <<"G","r","o","u","p"," ">> \o code],
              err |-> ""]

\* what a client passes as an invite code: the code of a group as generated,
\* the same typed in lower case, and a code no group has
TypedCodes ==
    {generateInviteCode(draws) : draws \in CodeDraws}
        \cup {ToLower(generateInviteCode(<<7, 8, 12, 13, 23, 24>>)),
              <<"Z","Z","Z","-","9","9","9">>}

\* the arguments of `grind join`
JoinArgs ==
    {<<"h","j","n","p","z","2">>, <<" ","A","A","A","-","A","A","A">>, <<"a","b">>}

\* the call op, made for the user or the quest arg, ended with err
Called(op, arg, err) ==
    [n |-> 1 - gLast.n, op |-> op, arg |-> arg, err |-> err]

GroupCommit(r) ==
    /\ gGroups' = r.groups
    /\ gUsers' = r.users
    /\ gActivity' = r.activity

InitGroups ==
    /\ SessionIdle
    /\ XPIdle /\ LevelIdle /\ InsightIdle
    /\ gGroups = <<>>
    /\ gUsers = [u \in 1..MaxUsers |-> 0]
    /\ gActivity = <<>>
    /\ \E loggedIn \in BOOLEAN :
          gConfig = [loggedIn |-> loggedIn, GroupID |-> <<>>, GroupName |-> <<>>]
    /\ gLast = NoCall

GroupsCreate ==
    /\ Len(gGroups) < MaxGroups
    /\ \E createdBy \in 1..MaxUsers, draws \in CodeDraws :
          /\ GroupCommit(groupsCreate(createdBy, draws))
          /\ gLast' = Called("groups:create", createdBy, "")
    /\ UNCHANGED <<sessionVars, gConfig>>

GroupsJoin ==
    /\ Len(gActivity) < MaxJoined
    /\ \E userId \in 1..MaxUsers, inviteCode \in TypedCodes :
          LET r == groupsJoin(userId, inviteCode)
          IN  /\ GroupCommit(r)
              /\ gLast' = Called("groups:join", userId, r.err)
    /\ UNCHANGED <<sessionVars, gConfig>>

UsersJoinGroup ==
    /\ Len(gActivity) < MaxJoined
    /\ \E userId \in 1..MaxUsers, groupId \in 1..Len(gGroups) :
          LET r == usersJoinGroup(userId, groupId)
          IN  /\ GroupCommit(r)
              /\ gLast' = Called("users:joinGroup", userId, r.err)
    /\ UNCHANGED <<sessionVars, gConfig>>

\* `grind join <arg>` on the machine of user 1
RunJoin ==
    /\ \E arg \in JoinArgs :
          LET r == runJoin(gConfig, arg)
          IN  /\ gConfig' = r.cfg
              /\ gLast' = Called("join", 1, r.err)
    /\ UNCHANGED <<sessionVars, gGroups, gUsers, gActivity>>

NextGroups ==
    \/ GroupsCreate
    \/ GroupsJoin
    \/ UsersJoinGroup
    \/ RunJoin

SpecGroups == InitGroups /\ [][NextGroups]_vars

(***************************************************************************)
(* SpecStore: the quests of the store, called by any client in any order   *)
(***************************************************************************)

\* quests the store holds at most in SpecStore (rows ever inserted)
MaxStored == 2
\* the xp of the created quests
StoredXPs == {10, 100}

\* the xp of the users:addXp calls, and the total they stop at
AddedXPs == {500, 2500}
MaxStoredXP == 6000

\* what the calls of SpecStore leave alone
beyondStore ==
    <<dashVars, loads, cmds, hist, appVars, animVars,
      title, xpResult, currentXP, levelResult, members, draw, ai, insightType,
      gGroups, gUsers, gActivity, gConfig, pollVars>>

InitStore ==
    /\ \E xp \in {<<0, 0>>, <<95, 40>>}, inGroup \in BOOLEAN :
          sUser = [totalXp |-> xp[1], weeklyXp |-> xp[2],
                   level |-> calculateLevel(xp[1]), inGroup |-> inGroup]
    /\ sQuests = <<>>
    /\ sActivity = <<>>
    /\ dUser = [totalXp |-> 0, weeklyXp |-> 0, level |-> 1, inGroup |-> FALSE]
    /\ dQuests = <<>>
    /\ dActivity = <<>>
    /\ dErr = ""
    /\ dLoading = FALSE
    /\ dInput = <<>>
    /\ inputFocused = TRUE
    /\ selectedQuest = -1
    /\ levelUpVisible = FALSE
    /\ groupVisible = FALSE
    /\ loads = <<>>
    /\ cmds = EmptyBag
    /\ hist = <<>>
    /\ AppIdle
    /\ XPIdle /\ LevelIdle /\ InsightIdle
    /\ GroupsIdle

StoreCreate ==
    /\ Len(sQuests) < MaxStored
    /\ \E xp \in StoredXPs :
          LET r == questsCreate(xp)
          IN  /\ Commit(r)
              /\ gLast' = Called("quests:create", r.value.questId, r.err)
    /\ UNCHANGED beyondStore

StoreStart ==
    /\ \E q \in 1..MaxStored :
          LET r == questsStart(q)
          IN  /\ Commit(r)
              /\ gLast' = Called("quests:start", q, r.err)
    /\ UNCHANGED beyondStore

StoreComplete ==
    /\ \E q \in 1..MaxStored :
          LET r == questsComplete(q)
          IN  /\ Commit(r)
              /\ gLast' = Called("quests:complete", q, r.err)
    /\ UNCHANGED beyondStore

StoreRemove ==
    /\ \E q \in 1..MaxStored :
          LET r == questsRemove(q)
          IN  /\ Commit(r)
              /\ gLast' = Called("quests:remove", q, r.err)
    /\ UNCHANGED beyondStore

\* users:create for a user who has no quest yet; the specification follows
\* that user's row from then on
StoreUsersCreate ==
    /\ sQuests = <<>>
    /\ LET r == usersCreate
       IN  /\ Commit(r)
           /\ gLast' = Called("users:create", 0, r.err)
    /\ UNCHANGED beyondStore

StoreAddXp ==
    /\ \E xp \in AddedXPs :
          LET r == usersAddXp(xp)
          IN  /\ r.user.totalXp <= MaxStoredXP
              /\ Commit(r)
              /\ gLast' = Called("users:addXp", xp, r.err)
    /\ UNCHANGED beyondStore

NextStore ==
    \/ StoreUsersCreate
    \/ StoreAddXp
    \/ StoreCreate
    \/ StoreStart
    \/ StoreComplete
    \/ StoreRemove

SpecStore == InitStore /\ [][NextStore]_vars

(***************************************************************************)
(* SpecPoll: the data refresh of a dashboard that NewApp started: the four *)
(* loads of Init, the refresh timer and the loads of each firing, against  *)
(* a store that other clients change meanwhile                             *)
(***************************************************************************)

\* ActivityTickMsg the dashboard handles at most
MaxFirings == 1

\* dashboard:getStats: today's quests of the user, those completed, their xp,
\* and the user's weekly xp
RECURSIVE todayXPFrom(_)
todayXPFrom(q) ==
    IF q > Len(sQuests) THEN 0
    ELSE (IF sQuests[q].status = "completed" THEN sQuests[q].xp ELSE 0)
           + todayXPFrom(q + 1)

getStats ==
    [loaded          |-> TRUE,
     todayXP         |-> todayXPFrom(1),
     questsCompleted |-> Cardinality({q \in 1..Len(sQuests) :
                                        sQuests[q].status = "completed"}),
     questsTotal     |-> Len(questsListToday),
     weekXP          |-> sUser.weeklyXp]

\* activity:getUserActivity: the rows of the feed, newest first
getUserActivity == Reverse(sActivity)

PollCommands == BagToSet(polls)

\* the command c returns the message m
PollPost(c, m) == polls' = (polls (-) SetToBag({c})) (+) SetToBag({m})

\* the event loop takes the message of c; the model keeps the message
PollTake(c) ==
    polls' = (polls (-) SetToBag({c})) (+) SetToBag({[c EXCEPT !.phase = "done"]})

\* mutant: a failed load empties the feed
ActivityLoadedClears(activity, msg) ==
    IF msg.err = NoError /\ msg.activity # <<>> THEN msg.activity ELSE <<>>

\* case ActivityLoadedMsg; a reply without rows leaves msg.Activities nil
ActivityLoaded(activity, msg) ==
    IF msg.err = NoError /\ msg.activity # <<>> THEN msg.activity ELSE activity

\* case StatsLoadedMsg
StatsLoaded(stats, msg) ==
    IF msg.err = NoError /\ msg.stats.loaded THEN msg.stats ELSE stats

InitPoll ==
    /\ sUser = [totalXp |-> 0, weeklyXp |-> 0, level |-> 1, inGroup |-> TRUE]
    /\ sQuests \in {<<>>, <<[xp |-> 10, status |-> "pending"]>>}
    /\ sActivity = <<>>
    /\ dUser = [totalXp |-> 0, weeklyXp |-> 0, level |-> 1, inGroup |-> TRUE]
    /\ dQuests = <<>>
    /\ dActivity = <<>>
    /\ dErr = NoError
    /\ dLoading = FALSE
    /\ dInput = <<>>
    /\ inputFocused = TRUE
    /\ selectedQuest = -1
    /\ levelUpVisible = FALSE
    /\ groupVisible = FALSE
    /\ loads = [user   |-> [phase |-> "running", err |-> NoError, user |-> dUser],
                quests |-> [phase |-> "running", err |-> NoError, quests |-> <<>>]]
    /\ cmds = EmptyBag
    /\ hist = [q \in 1..MaxQuests |-> NoHist]
    /\ XPIdle /\ LevelIdle /\ InsightIdle
    /\ app = [screen |-> "dashboard", quit |-> FALSE, panicked |-> FALSE]
    /\ config = LoggedIn
    /\ disk = LoggedIn
    /\ onboarding = NoOnboarding
    /\ oCmds = EmptyBag
    /\ event = NoEvent
    /\ AnimIdle
    /\ GroupsIdle
    /\ refresh = tickActivity(NoTimer)
    /\ polls = LoadActivityAndStats
    /\ dStats = NoStats

\* case ActivityTickMsg
UpdateActivityTickMsg ==
    /\ refresh.timers > 0
    /\ refresh.fired < MaxFirings
    /\ refresh' = tickActivity([refresh EXCEPT !.timers = @ - 1, !.fired = @ + 1])
    /\ polls' = polls (+) LoadActivityAndStats
    /\ UNCHANGED <<storeVars, dashVars, loads, cmds, hist, appVars, animVars,
                   title, xpResult, currentXP, levelResult, members, draw, ai,
                   insightType, groupVars, dStats>>

\* the closure of loadActivity
RunLoadActivity(c) ==
    /\ c.kind = "activity" /\ c.phase = "running"
    /\ \E outcome \in {"ok", "lost"} :
          PollPost(c, IF outcome = "ok"
                      THEN [c EXCEPT !.phase = "posted", !.activity = getUserActivity]
                      ELSE [c EXCEPT !.phase = "posted", !.err = HttpError])
    /\ UNCHANGED <<storeVars, dashVars, loads, cmds, hist, appVars, animVars,
                   title, xpResult, currentXP, levelResult, members, draw, ai,
                   insightType, groupVars, refresh, dStats>>

\* the closure of loadStats: the action, the query if the action fails
RunLoadStats(c) ==
    /\ c.kind = "stats" /\ c.phase = "running"
    /\ \E action \in {"ok", "lost"}, query \in {"ok", "lost"} :
          PollPost(c, IF action = "ok" \/ query = "ok"
                      THEN [c EXCEPT !.phase = "posted", !.stats = getStats]
                      ELSE [c EXCEPT !.phase = "posted", !.err = HttpError])
    /\ UNCHANGED <<storeVars, dashVars, loads, cmds, hist, appVars, animVars,
                   title, xpResult, currentXP, levelResult, members, draw, ai,
                   insightType, groupVars, refresh, dStats>>

UpdateActivityLoadedMsg(c) ==
    /\ c.kind = "activity" /\ c.phase = "posted"
    /\ dActivity' = ActivityLoaded(dActivity, c)
    /\ PollTake(c)
    /\ UNCHANGED <<storeVars, dUser, dQuests, dErr, dLoading, dInput,
                   inputFocused, selectedQuest, levelUpVisible, groupVisible,
                   loads, cmds, hist, appVars, animVars,
                   title, xpResult, currentXP, levelResult, members, draw, ai,
                   insightType, groupVars, refresh, dStats>>

UpdateStatsLoadedMsg(c) ==
    /\ c.kind = "stats" /\ c.phase = "posted"
    /\ dStats' = StatsLoaded(dStats, c)
    /\ PollTake(c)
    /\ UNCHANGED <<storeVars, dashVars, loads, cmds, hist, appVars, animVars,
                   title, xpResult, currentXP, levelResult, members, draw, ai,
                   insightType, groupVars, refresh>>

LoadActivityRun   == \E c \in PollCommands : RunLoadActivity(c)
LoadStatsRun      == \E c \in PollCommands : RunLoadStats(c)
ActivityLoadedMsg == \E c \in PollCommands : UpdateActivityLoadedMsg(c)
StatsLoadedMsg    == \E c \in PollCommands : UpdateStatsLoadedMsg(c)

NextPoll ==
    \/ RunLoadUser
    \/ RunLoadQuests
    \/ UpdateUserLoadedMsg
    \/ UpdateQuestsLoadedMsg
    \/ UpdateActivityTickMsg
    \/ LoadActivityRun
    \/ LoadStatsRun
    \/ ActivityLoadedMsg
    \/ StatsLoadedMsg
    \/ \E q \in 1..MaxQuests :
          \/ ApiStart(q)
          \/ ApiComplete(q)
          \/ ApiRemove(q)

SpecPoll == InitPoll /\ [][NextPoll]_vars

(***************************************************************************)
(* SpecAdds: a dashboard session in which the user adds up to MaxAdded     *)
(* quests and moves the selection over them, while the loads of            *)
(* DashboardModel.Init are still in flight                                 *)
(***************************************************************************)

\* the quests one session creates
MaxAdded == 2

\* the keys pressed: type a title or focus the text field, submit the title,
\* change the focus, move the selection down
AddsKeys == {"a", "enter", "tab", "j"}

\* NewDashboardModel and DashboardModel.Init, against a store that holds the
\* user's row and no quest of today
InitAdds ==
    /\ sUser = [totalXp |-> 0, weeklyXp |-> 0, level |-> 1, inGroup |-> FALSE]
    /\ sQuests = <<>>
    /\ sActivity = <<>>
    /\ dUser = sUser
    /\ dQuests = <<>>
    /\ dActivity = <<>>
    /\ dErr = NoError
    /\ dLoading = FALSE
    /\ dInput = <<>>
    /\ inputFocused = TRUE
    /\ selectedQuest = -1
    /\ levelUpVisible = FALSE
    /\ groupVisible = FALSE
    /\ loads = [user   |-> [phase |-> "running", err |-> NoError, user |-> dUser],
                quests |-> [phase |-> "running", err |-> NoError, quests |-> <<>>]]
    /\ cmds = EmptyBag
    /\ hist = [q \in 1..MaxAdded |-> NoHist]
    /\ XPIdle /\ LevelIdle /\ InsightIdle
    /\ AppIdle
    /\ GroupsIdle

\* case tea.KeyMsg; the user presses enter in the text field only
AddsKeyMsg ==
    \E key \in AddsKeys :
        /\ key = "enter" => inputFocused
        /\ handleKeyWithin(key, MaxAdded)

NextAdds ==
    \/ RunLoadUser
    \/ RunLoadQuests
    \/ UpdateUserLoadedMsg
    \/ UpdateQuestsLoadedMsg
    \/ AddsKeyMsg
    \/ AddQuestRuns
    \/ QuestAddedMsg

SpecAdds == InitAdds /\ [][NextAdds]_vars

(***************************************************************************)
(* Properties of the pure functions                                        *)
(***************************************************************************)

\* a passive keyword occurs in the lower-cased title
HasPassive(t) == \E k \in 1..Len(passive) : Contains(ToLower(t), passive[k])
HasHigh(t)    == \E k \in 1..Len(highEffort) : Contains(ToLower(t), highEffort[k])
HasMed(t)     == \E k \in 1..Len(medEffort) : Contains(ToLower(t), medEffort[k])
HasSmall(t)   == \E k \in 1..Len(smallEffort) : Contains(ToLower(t), smallEffort[k])
LengthBonus(t) == IF Fields(t) > 5 THEN 10 ELSE 0

\* C5: estimateXP returns exactly 0 for every title that contains a passive
\* keyword, whatever other keywords or word count it has, and a value in
\* [10,100] for every other title.
C5_PassiveZeroElseInRange ==
    xpResult # -1 =>
        IF HasPassive(title) THEN xpResult = 0
        ELSE xpResult >= 10 /\ xpResult <= 100

\* C5 witness: a passive title of more than five words that also holds a
\* high-effort keyword has been scored 0.
C5_Witness ==
    /\ xpResult = 0
    /\ HasPassive(title) /\ HasHigh(title) /\ Fields(title) > 5

\* C6 as claimed: without a passive keyword the score is min(100, 20 + B + L),
\* B being the bonus of only the first tier that matches (+40, else +25, else
\* +10, else 0) and L the length bonus.
C6_FirstTierOnly ==
    (xpResult # -1 /\ ~HasPassive(title)) =>
        xpResult = Min(100, 20 + (IF HasHigh(title) THEN 40
                                  ELSE IF HasMed(title) THEN 25
                                  ELSE IF HasSmall(title) THEN 10
                                  ELSE 0)
                               + LengthBonus(title))

\* C6 amended: without a passive keyword the score is min(100, 20 + H + M + S + L):
\* every tier that matches adds its bonus once (H = 40, M = 25, S = 10), and L is
\* the length bonus; "ship landing page and write docs" (six words) scores 95.
C6_TiersAdd ==
    (xpResult # -1 /\ ~HasPassive(title)) =>
        /\ xpResult = Min(100, 20 + (IF HasHigh(title) THEN 40 ELSE 0)
                                  + (IF HasMed(title) THEN 25 ELSE 0)
                                  + (IF HasSmall(title) THEN 10 ELSE 0)
                                  + LengthBonus(title))
        /\ (title = <<"s","h","i","p"," ","l","a","n","d","i","n","g"," ",
                      "p","a","g","e"," ","a","n","d"," ","w","r","i","t","e"," ",
                      "d","o","c","s">> => xpResult = 95)

\* C6 witness: the scenario title, which matches the high and the medium tier,
\* has been scored.
C6_Witness ==
    /\ title = <<"s","h","i","p"," ","l","a","n","d","i","n","g"," ",
                 "p","a","g","e"," ","a","n","d"," ","w","r","i","t","e"," ",
                 "d","o","c","s">>
    /\ HasHigh(title) /\ HasMed(title) /\ Fields(title) = 6
    /\ xpResult = 95

\* the table of the claim, and the level with the greatest minimum XP <= xp
ClaimThresholds == <<0, 100, 300, 600, 1000, 1500, 2200, 3000, 4000, 5500>>
TableLevel(xp) ==
    CHOOSE n \in 1..Len(ClaimThresholds) :
        /\ ClaimThresholds[n] <= xp
        /\ \A k \in 1..Len(ClaimThresholds) : ClaimThresholds[k] <= xp => k <= n

\* C7: for every non-negative xp, GetLevel(xp) and the server's calculateLevel(xp)
\* both are the level with the greatest minimum XP <= xp in the table, so they
\* agree; the result does not decrease as xp grows, and is level 1 for xp = 0.
C7_LevelsAgreeAndMonotone ==
    levelResult # LevelNotRun =>
        /\ levelResult.client = TableLevel(currentXP)
        /\ levelResult.server = TableLevel(currentXP)
        /\ levelResult.quests = TableLevel(currentXP)
        /\ levelResult.client = levelResult.server
        /\ (currentXP = 0 => levelResult.client = 1)
        /\ (currentXP > 0 => /\ GetLevel(currentXP - 1) <= levelResult.client
                             /\ usersCalculateLevel(currentXP - 1) <= levelResult.server)

\* C7 witness: exactly on a threshold both sides have answered the new level.
C7_Witness ==
    /\ currentXP = 1000
    /\ levelResult.client = 5 /\ levelResult.server = 5

\* C8: LevelProgress(xp) is in [0,1], is (xp - currentThreshold) /
\* (nextThreshold - currentThreshold) below the terminal level, and is 1.0
\* exactly when xp >= 5500.
C8_ProgressInUnitInterval ==
    levelResult # LevelNotRun =>
        LET p   == levelResult.progress
            cur == TableLevel(currentXP)
        IN  /\ p[2] > 0 /\ p[1] >= 0 /\ p[1] <= p[2]
            /\ (cur < Len(ClaimThresholds) =>
                    p = <<currentXP - ClaimThresholds[cur],
                          ClaimThresholds[cur + 1] - ClaimThresholds[cur]>>)
            /\ (p[1] = p[2] <=> currentXP >= ClaimThresholds[Len(ClaimThresholds)])

\* C8 witness: one XP below the terminal threshold the progress is 1499/1500.
C8_Witness ==
    /\ currentXP = 5499
    /\ levelResult.progress = <<1499, 1500>>

\* the member ranked first by weekly XP (the earliest of the members with the
\* greatest weekly XP), the viewer's entry, and the gap between them
HasViewer(ms) == \E i \in 1..Len(ms) : ms[i].isCurrentUser
Viewer(ms) ==
    ms[CHOOSE i \in 1..Len(ms) :
        ms[i].isCurrentUser /\ \A j \in 1..Len(ms) : ms[j].isCurrentUser => i <= j]
Leader(ms) ==
    ms[CHOOSE i \in 1..Len(ms) :
        \A j \in 1..Len(ms) :
            /\ ms[j].weeklyXP <= ms[i].weeklyXP
            /\ (ms[j].weeklyXP = ms[i].weeklyXP => i <= j)]
Gap(ms) == Leader(ms).weeklyXP - Viewer(ms).weeklyXP

\* C9: the mode is rivalry only when the group has more than one member, the
\* viewer is not the leader by weekly XP and the gap to the leader is below 100;
\* for zero or one member, or without a viewer entry, it is stoic.  The same
\* holds of the insight type getStatsWithInsight returns.
C9_RivalryOnlyWhenCatchable ==
    insightType # InsightNotRun =>
        /\ \A t \in {insightType.mode, insightType.stats} :
              t = "rivalry" =>
                  /\ Len(members) > 1
                  /\ HasViewer(members)
                  /\ ~Leader(members).isCurrentUser
                  /\ Gap(members) < 100
        /\ (Len(members) <= 1 \/ ~HasViewer(members)) =>
              insightType.mode = "stoic" /\ insightType.stats = "stoic"

\* C9 witness: the viewer at 40 behind a leader at 120 in a group of three
\* has been given rivalry.
C9_Witness ==
    /\ Len(members) = 3
    /\ HasViewer(members)
    /\ Viewer(members).weeklyXP = 40 /\ Leader(members).weeklyXP = 120
    /\ insightType.mode = "rivalry" /\ insightType.stats = "rivalry"

\* C10: for two or more members (one of them the viewer): viewer not ranked
\* first and gap < 100 gives rivalry; otherwise viewer ranked first gives
\* analyst for every draw; otherwise the mode is analyst when the draw is
\* below 0.30 and stoic when it is not.
C10_DecisionTable ==
    (insightType # InsightNotRun /\ Len(members) >= 2 /\ HasViewer(members)) =>
        insightType.mode =
            IF ~Leader(members).isCurrentUser /\ Gap(members) < 100 THEN "rivalry"
            ELSE IF Leader(members).isCurrentUser THEN "analyst"
            ELSE IF draw < 30 THEN "analyst"
            ELSE "stoic"

\* C10 witness: a viewer exactly 100 behind with the draw at 0.30 got stoic.
C10_Witness ==
    /\ Len(members) >= 2 /\ HasViewer(members)
    /\ ~Leader(members).isCurrentUser /\ Gap(members) = 100
    /\ draw = 30
    /\ insightType.mode = "stoic"

\* the highest weekly XP among the members other than the leader
RunnerUpXP(ms) ==
    LET l == CHOOSE i \in 1..Len(ms) : ms[i] = Leader(ms) /\
                 \A j \in 1..Len(ms) :
                     /\ ms[j].weeklyXP <= ms[i].weeklyXP
                     /\ (ms[j].weeklyXP = ms[i].weeklyXP => i <= j)
    IN  CHOOSE x \in {ms[j].weeklyXP : j \in 1..Len(ms) \ {l}} :
            \A j \in 1..Len(ms) \ {l} : ms[j].weeklyXP <= x

\* C11 as stated: the substituted gap is 0 whenever the viewer is the leader.
C11_GapZeroWhenLeading ==
    (/\ insightType # InsightNotRun
     /\ Len(members) >= 2 /\ HasViewer(members)
     /\ Leader(members).isCurrentUser)
        => insightType.fallback.gap = 0

\* C11: for a group of two or more with a viewer entry, the fallback generator
\* substitutes gap = leader.weeklyXP - viewer.weeklyXP when the viewer does not
\* lead, and the leader's lead over the runner-up when the viewer leads (0 only
\* on a tie); quests-needed is ceil(gap / 40), the least n with 40 n >= gap; the
\* type returned is the selected mode.
C11_FallbackGapAndQuests ==
    (/\ insightType # InsightNotRun
     /\ Len(members) >= 2 /\ HasViewer(members))
        => LET f == insightType.fallback
           IN  /\ f.type = insightType.mode
               /\ f.gap = IF Leader(members).isCurrentUser
                          THEN Leader(members).weeklyXP - RunnerUpXP(members)
                          ELSE Gap(members)
               /\ f.gap >= 0
               /\ 40 * f.quests >= f.gap
               /\ 40 * (f.quests - 1) < f.gap

\* C11 witness: a group of three, viewer at 40, leader at 120: rivalry with gap
\* 80 and two quests needed.
C11_Witness ==
    /\ Len(members) = 3 /\ HasViewer(members)
    /\ Viewer(members).weeklyXP = 40 /\ Leader(members).weeklyXP = 120
    /\ ~Leader(members).isCurrentUser
    /\ insightType.fallback
         = [type |-> "rivalry", gap |-> 80, quests |-> 2, templated |-> TRUE]

(***************************************************************************)
(* Properties of the store and of the dashboard's completion handling      *)
(***************************************************************************)

\* the commands whose message this step posts
NewlyPosted ==
    {c \in BagToSet(cmds') : c.posted /\ CopiesIn(c, cmds') > CopiesIn(c, cmds)}

\* the commands whose message this step hands to Update
Delivered ==
    {c \in BagToSet(cmds) : c.posted /\ CopiesIn(c, cmds') < CopiesIn(c, cmds)}

\* quest q is in the store before the step and is completed by it
Completes(q) ==
    /\ q \in 1..Len(sQuests)
    /\ sQuests[q].status # "completed"
    /\ sQuests'[q].status = "completed"

LifecycleSteps ==
    {<<"pending", "in_progress">>, <<"in_progress", "completed">>,
     <<"pending", "completed">>}

\* C1: whatever is called on the store, a quest's status only changes
\* pending -> in_progress, in_progress -> completed or pending -> completed;
\* a completed quest is never changed nor deleted and no quest goes back to
\* pending, so a quest enters completed at most once.  (A quest that is not
\* completed may be deleted; a deleted quest stays deleted.)
C1_QuestLifecycle ==
    [][ /\ Len(sQuests') >= Len(sQuests)
        /\ \A q \in 1..Len(sQuests) :
              LET from == sQuests[q].status
                  to   == sQuests'[q].status
              IN  /\ sQuests'[q].xp = sQuests[q].xp
                  /\ \/ to = from
                     \/ <<from, to>> \in LifecycleSteps
                     \/ from \in {"pending", "in_progress"} /\ to = "deleted"
        /\ \A q \in (Len(sQuests) + 1)..Len(sQuests') :
              sQuests'[q].status = "pending" ]_vars

\* a completed quest on which a later quests:start and a later quests:complete
\* have both failed
C1_Witness ==
    \E c, d \in BagToSet(cmds) :
        /\ c.posted /\ c.kind = "start"
        /\ c.msg.err = "Quest must be pending to start"
        /\ d.posted /\ d.kind = "complete"
        /\ d.msg.err = "Quest already completed"
        /\ c.quest = d.quest
        /\ sQuests[c.quest].status = "completed"

\* C2: a quests:complete that succeeds adds exactly the quest's xp to the
\* owner's totalXp and weeklyXp, and the result it returns says leveledUp
\* exactly when the level of the new total is above the level of the old one.
C2_CompleteAddsXP ==
    [][ /\ \A q \in 1..Len(sQuests) :
              Completes(q) =>
                  /\ sUser'.totalXp = sUser.totalXp + sQuests[q].xp
                  /\ sUser'.weeklyXp = sUser.weeklyXp + sQuests[q].xp
        /\ \A c \in NewlyPosted :
              c.kind = "complete" /\ c.msg.err = NoError =>
                  /\ Completes(c.quest)
                  /\ c.msg.xp = sQuests[c.quest].xp
                  /\ c.msg.levelUp <=>
                        TableLevel(sUser'.totalXp) > TableLevel(sUser.totalXp)
                  /\ c.msg.levelUp => c.msg.newLevel = TableLevel(sUser'.totalXp)
      ]_vars

\* total XP 95 and a completed 10-XP quest: 105, level 2, leveledUp reported
C2_Witness ==
    \E c \in BagToSet(cmds) :
        /\ c.posted /\ c.kind = "complete" /\ c.msg.err = NoError
        /\ c.msg.xp = 10 /\ c.msg.levelUp /\ c.msg.newLevel = 2
        /\ sUser.totalXp = 105 /\ sUser.level = 2

C4_ErrorLeavesCacheAlone ==
    [][ /\ \A c \in Delivered :
              c.kind \in {"start", "complete"} /\ c.msg.err # NoError =>
                  /\ dQuests' = dQuests
                  /\ dUser' = dUser
                  /\ dActivity' = dActivity
                  /\ dErr' = c.msg.err
        /\ \/ loads.quests.phase = "posted" /\ loads'.quests.phase = "done"
           \/ /\ Len(dQuests') >= Len(dQuests)
              /\ \A k \in 1..Len(dQuests) :
                    /\ dQuests'[k].id = dQuests[k].id
                    /\ \/ dQuests'[k].status = dQuests[k].status
                       \/ \E c \in Delivered :
                             /\ c.msg.err = NoError
                             /\ c.msg.quest = dQuests[k].id
                             /\ \/ c.kind = "start"
                                   /\ dQuests'[k].status = "in_progress"
                                \/ c.kind = "complete"
                                   /\ dQuests'[k].status = "completed"
      ]_vars

\* a start was rejected by the store: the error is shown and the cached quest
\* is still pending, although the store has it in progress
C4_Witness ==
    /\ dErr = "Quest must be pending to start"
    /\ \E k \in 1..Len(dQuests) :
          /\ dQuests[k].status = "pending"
          /\ sQuests[dQuests[k].id].status = "in_progress"

(***************************************************************************)
(* Properties of the session and its onboarding wizard                     *)
(***************************************************************************)

\* the configuration in memory is the one auth.Save wrote: every run of the
\* wizard puts a fresh user ID into the configuration, so the two agree
\* again only through a successful Save
SavedConfig == disk = config /\ disk.userID = "user"

\* a.screen changes only from Onboarding at step Complete to Dashboard, after
\* a successful Save
ScreenStep ==
    app'.screen # app.screen =>
        /\ app.screen = "onboarding"
        /\ app'.screen = "dashboard"
        /\ onboarding.step = "StepComplete"
        /\ SavedConfig

\* C12: the session starts on Onboarding if the loaded configuration lacks a
\* user ID or a display name and on the Dashboard otherwise; from then on the
\* screen changes only from Onboarding at step Complete to Dashboard, only
\* once auth.Save has succeeded, and never from Dashboard back to Onboarding.
C12_ScreenFlow ==
    /\ app.screen = IF config.userID = "" \/ config.userName = <<>>
                    THEN "onboarding" ELSE "dashboard"
    /\ [][ScreenStep]_vars

\* the wizard ran to its end and the session moved on to the dashboard
C12_Witness ==
    /\ app.screen = "dashboard"
    /\ onboarding.step = "StepComplete"
    /\ SavedConfig
    /\ disk.groupID = "group"

StepRank(step) ==
    CASE step = "StepWelcome"     -> 0
      [] step = "StepName"        -> 1
      [] step = "StepGroupChoice" -> 2
      [] step = "StepCreateGroup" -> 3
      [] step = "StepJoinGroup"   -> 3
      [] step = "StepComplete"    -> 4
      [] OTHER                    -> -1

\* the step moves to the next one along the wizard's path
StepAdvance ==
    onboarding'.step # onboarding.step =>
        StepRank(onboarding'.step) = StepRank(onboarding.step) + 1

\* the field the step validates holds nothing but spaces
AllSpaces(value) == \A i \in 1..Len(value) : value[i] = " "
FieldOf(m) ==
    CASE m.step = "StepName"        -> m.nameInput
      [] m.step = "StepCreateGroup" -> m.groupInput
      [] m.step = "StepJoinGroup"   -> m.codeInput
      [] OTHER                      -> <<"-">>

\* the step processed a press of key on the onboarding screen
Pressed(key) ==
    /\ event' # event
    /\ event'.kind = "key"
    /\ event'.key = key
    /\ app.screen = "onboarding"

EnterOnBlankField ==
    Pressed("enter") /\ AllSpaces(FieldOf(onboarding)) =>
        /\ onboarding' = onboarding
        /\ config' = config
        /\ oCmds' = oCmds

\* C13: the onboarding step only advances along Welcome, NameEntry,
\* GroupChoice, CreateGroup or JoinGroup, Complete: no step of the session
\* moves it back or past a step; and Enter on NameEntry, CreateGroup or
\* JoinGroup with an empty or whitespace-only field leaves the onboarding
\* state and the configuration as they were and dispatches nothing.
C13_StepsInOrder == [][StepAdvance /\ EnterOnBlankField]_vars

\* Enter was pressed on a whitespace-only name
C13_Witness ==
    /\ event.kind = "key" /\ event.key = "enter"
    /\ onboarding.step = "StepName"
    /\ onboarding.nameInput = <<" ", " ">>
    /\ ~onboarding.loading

\* a key press while a remote command is outstanding changes nothing on the
\* onboarding screen
KeysIgnoredWhileLoading ==
    (\E key \in OnboardKeys : Pressed(key)) /\ ORemote # {} =>
        /\ onboarding' = onboarding
        /\ config' = config
        /\ oCmds' = oCmds

OneRemoteCommand ==
    BagCardinality([c \in ORemote |-> oCmds[c]]) <= 1

\* the creation messages the step took from the bag
OTaken ==
    {c \in ORemote : c.phase = "posted" /\ CopiesIn(c, oCmds') < CopiesIn(c, oCmds)}

CompletionHandled ==
    \A c \in OTaken :
        /\ ~onboarding'.loading
        /\ IF c.err # ""
           THEN /\ onboarding'.err = c.err
                /\ onboarding'.step = onboarding.step
                /\ ~Blank(FieldOf(onboarding'))
           ELSE StepRank(onboarding'.step) = StepRank(onboarding.step) + 1

\* Enter on a filled-in NameEntry or CreateGroup step with nothing outstanding
\* dispatches the step's command
EnterDispatches ==
    /\ Pressed("enter")
    /\ onboarding.step \in {"StepName", "StepCreateGroup"}
    /\ ~onboarding.loading
    /\ ~AllSpaces(FieldOf(onboarding))
    => \E c \in BagToSet(oCmds') :
          /\ c.phase = "running"
          /\ c.kind = IF onboarding.step = "StepName"
                      THEN "createUser" ELSE "createGroup"
          /\ CopiesIn(c, oCmds') = CopiesIn(c, oCmds) + 1

NoModal == ~levelUpVisible /\ ~groupVisible

\* the commands the step added to those in flight
Dispatched ==
    {c \in BagToSet(cmds') : CopiesIn(c, cmds') > CopiesIn(c, cmds)}

\* the step dispatched exactly one command, of this kind and for this quest
DispatchedOne(kind, q) ==
    /\ BagCardinality(cmds') = BagCardinality(cmds) + 1
    /\ \E c \in Dispatched : c.kind = kind /\ c.quest = q /\ ~c.posted

ValidSelection ==
    ~inputFocused /\ selectedQuest >= 0 /\ selectedQuest < Len(dQuests)

\* Enter on the dashboard; onCompleted is what it does to a completed quest
EnterStep(onCompleted) ==
    event.key = "enter" /\ NoModal /\ app.screen = "dashboard" /\ vars' # vars =>
        /\ inputFocused /\ dInput # <<>> =>
              /\ DispatchedOne("add", 0)
              /\ \A c \in Dispatched : c.title = dInput
        /\ ValidSelection =>
              LET quest == dQuests[selectedQuest + 1]
              IN  CASE quest.status = "pending"     -> DispatchedOne("start", quest.id)
                    [] quest.status = "in_progress" -> DispatchedOne("complete", quest.id)
                    [] OTHER                        -> onCompleted

\* the original wording: Enter on a completed quest changes nothing
C15_EnterOnCompletedChangesNothing ==
    [][EnterStep(FALSE)]_vars

\* C15: on the dashboard with no modal visible, Enter with the text field
\* focused and non-empty dispatches exactly one evaluate-then-create command
\* for the text; Enter with the quest list focused on a valid selection
\* dispatches quests:start for a pending quest and quests:complete for one in
\* progress; on a completed quest it dispatches nothing and changes nothing
\* but the displayed error, which it clears.
C15_EnterDispatch ==
    [][EnterStep(/\ cmds' = cmds
                 /\ dErr # NoError
                 /\ dErr' = NoError
                 /\ UNCHANGED <<storeVars, dUser, dQuests, dActivity, dLoading,
                                dInput, inputFocused, selectedQuest,
                                levelUpVisible, groupVisible, loads, hist,
                                otherVars>>)]_vars

\* Enter on a selected quest in progress has dispatched its completion
C15_Witness ==
    /\ event.key = "enter"
    /\ \E c \in Commands : c.kind = "complete" /\ ~c.posted
    /\ ValidSelection
    /\ dQuests[selectedQuest + 1].status = "in_progress"

\* a key press with a modal visible hides the modal handleKey tests first and
\* touches nothing else, whatever the key and the focus
ModalStep ==
    (levelUpVisible \/ groupVisible) /\ app.screen = "dashboard" /\ vars' # vars =>
        /\ levelUpVisible' = FALSE
        /\ groupVisible' = (levelUpVisible /\ groupVisible)
        /\ app' = app
        /\ cmds' = cmds
        /\ UNCHANGED <<storeVars, dUser, dQuests, dActivity, dErr, dLoading,
                       dInput, inputFocused, selectedQuest, loads, hist>>

\* C16: whenever the group-info modal or the level-up modal is visible on the
\* dashboard, a key press (every key, in either focus state) hides that modal
\* and does nothing else: it does not quit the session, move focus or
\* selection, edit the text field or dispatch a command.
C16_ModalSwallowsKey == [][ModalStep]_vars

\* the same, for the keys App.Update hands on to the dashboard
C16_ModalSwallowsUnlessQuit == [][app' = app => ModalStep]_vars

(***************************************************************************)
(* Properties of the animation sequencer                                   *)
(***************************************************************************)

\* the ticks the step scheduled, a tick message being used up by the step
Scheduled == ticks' - (ticks - 1)

\* a processed tick schedules another only if something moved in it
TickStep ==
    event' # event /\ event'.kind = "AnimationTickMsg" /\ Scheduled > 0 =>
        \/ animation'.DisplayedXP > animation.DisplayedXP
        \/ animation'.FlashTicks < animation.FlashTicks
        \/ levelUpVisible' /\ modalTicks' > modalTicks

\* C17: a processed animation tick schedules a further tick only if in it the
\* XP counter advanced, the flash countdown went down, or the level-up modal,
\* still visible, advanced; and once no further animation is triggered, after
\* finitely many ticks no tick is pending and none is scheduled any more.
C17_TicksDieOut ==
    /\ [][TickStep]_vars
    /\ <>[](ticks = 0)

\* the sequencer has run dry after a roll-up, a flash and a modal that timed out
C17_Witness ==
    /\ ticks = 0
    /\ triggers = MaxTriggers
    /\ animation.TargetXP > 0
    /\ animation.DisplayedXP = animation.TargetXP
    /\ animation.FlashTicks = 0
    /\ modalTicks = MaxTicks
    /\ ~levelUpVisible

(***************************************************************************)
(* Properties of the asynchronous commands                                 *)
(***************************************************************************)

\* the commands whose closure has run
Ran == {c \in RemoteCommands : c.phase # "running"}

\* C18: every dispatched asynchronous command delivers exactly one completion
\* message to the event loop, with a result or an error, whatever the remote
\* side answered: success, an error, nothing in time, or a payload of an
\* unexpected shape.
C18_OneCompletionMessage ==
    \A c \in Ran : c.phase = "posted" /\ hist[c.id] = 1

\* the same for the answers the closures read with checked assertions only
C18_OneMessageUnlessFieldsMissing ==
    \A c \in Ran :
        c.remote # "fields" /\ c.ai # "fields" =>
            c.phase = "posted" /\ hist[c.id] = 1

\* the add command whose evaluation ended as in outcomes, the store answering
AddAfter(outcomes) ==
    {c \in Ran : c.kind = "addQuest" /\ c.ai \in outcomes /\ c.remote = "ok"}

\* the message carries the created pending quest with the heuristic XP
LocalEstimate(c) ==
    /\ c.phase = "posted"
    /\ c.msg.err = NoError
    /\ c.msg.xp = estimateXP(c.title)
    /\ c.msg.reasoning = "local estimate"
    /\ c.msg.status = "pending"
    /\ c.msg.quest \in 1..Len(sQuests)
    /\ sQuests[c.msg.quest].xp = c.msg.xp

\* C19: when ai:evaluateQuest fails or times out while the store is reachable,
\* the add command falls back to estimateXP(title), tagged "local estimate",
\* and still creates the quest: its message carries the created pending quest
\* with the heuristic XP and no error.
C19_FallbackStillCreates ==
    \A c \in AddAfter({"error", "timeout"}) : LocalEstimate(c)

\* the same for an evaluation that failed before the deadline
C19_FallbackOnFailure ==
    \A c \in AddAfter({"error", "shape"}) : LocalEstimate(c)

\* C20: no answer of the remote side ends the session: a payload that is
\* malformed or lacks expected fields is handled like an unavailable remote,
\* by a fallback or an error message, and the loop goes on taking input.
C20_NoOutcomeEndsSession ==
    /\ ~app.panicked
    /\ \A c \in Ran : c.phase = "posted"

(***************************************************************************)
(* Properties of the dashboard's errors                                    *)
(***************************************************************************)

\* the step hands the message of the load to Update, and the message carries
\* an error
LoadFailed(load) ==
    /\ loads[load].phase = "posted"
    /\ loads'[load].phase = "done"
    /\ loads[load].err # NoError

\* what a failed completion leaves alone besides d.err and the loading flag
RestOfSession ==
    <<storeVars, dUser, dQuests, dActivity, dInput, inputFocused, selectedQuest,
      levelUpVisible, groupVisible>>

\* C21: every message of a dashboard command that carries a failure (a failed
\* user or quest-list load as much as a failed add, start or complete) sets
\* d.err to that failure and leaves the store, the cached user, quests and
\* activity, the text field, the focus, the selection and the modals unchanged.
C21_FailureSetsError ==
    [][ /\ \A load \in {"user", "quests"} :
              LoadFailed(load) =>
                  /\ dErr' = loads[load].err
                  /\ UNCHANGED RestOfSession
        /\ \A c \in Delivered :
              c.msg.err # NoError =>
                  /\ dErr' = c.msg.err
                  /\ UNCHANGED RestOfSession
      ]_vars

\* the load messages apart, and the text field, which QuestAddedMsg empties
C21_CommandFailureSetsError ==
    [][ \A c \in Delivered :
            c.msg.err # NoError =>
                /\ dErr' = c.msg.err
                /\ UNCHANGED <<storeVars, dUser, dQuests, dActivity, inputFocused,
                               selectedQuest, levelUpVisible, groupVisible>>
                /\ c.kind # "add" => UNCHANGED dInput
      ]_vars

\* a key press that reaches the dashboard while an error is set
KeyOnError ==
    /\ app.screen = "dashboard"
    /\ dErr # NoError
    /\ app' = app
    /\ Delivered = {}
    /\ vars' # vars

WellFormedCode(code) ==
    /\ Len(code) = 7
    /\ code[4] = "-"
    /\ \A i \in {1, 2, 3, 5, 6, 7} :
          /\ \E k \in 1..32 : InviteChars[k] = code[i]
          /\ code[i] \notin {"I", "O", "0", "1"}

\* C23: after any sequence of groups:create calls no two groups of the store
\* have the same invite code, and every invite code has the form XXX-YYY over
\* the alphabet of 32 characters that leaves out I, O, 0 and 1.
C23_CodesUniqueAndWellFormed ==
    /\ \A g, h \in 1..Len(gGroups) :
          g # h => gGroups[g].inviteCode # gGroups[h].inviteCode
    /\ \A g \in 1..Len(gGroups) : WellFormedCode(gGroups[g].inviteCode)

\* the form alone
C23_CodesWellFormed ==
    /\ Len(InviteChars) = 32
    /\ \A k, l \in 1..32 : k # l => InviteChars[k] # InviteChars[l]
    /\ \A g \in 1..Len(gGroups) : WellFormedCode(gGroups[g].inviteCode)

\* the call of this step is made for a user who has a group: in the store for
\* the mutations, in the local configuration for the join subcommand
CalledForMember ==
    /\ gLast' # gLast
    /\ IF gLast'.op = "join" THEN gConfig.GroupID # <<>>
       ELSE gUsers[gLast'.arg] # 0

\* C24: a group reference that is set is never replaced: groups:join,
\* groups:create, users:joinGroup and the join subcommand, called for a user
\* who has a group, fail with an error and leave the users rows and the local
\* configuration unchanged.
C24_GroupNeverReplaced ==
    [][CalledForMember =>
          /\ gLast'.err # ""
          /\ gUsers' = gUsers
          /\ gConfig' = gConfig]_vars

\* the same for the two operations that look at the reference first
C24_JoinNeverReplaces ==
    [][CalledForMember /\ gLast'.op \in {"groups:join", "join"} =>
          /\ gLast'.err # ""
          /\ gUsers' = gUsers
          /\ gConfig' = gConfig
          /\ gActivity' = gActivity]_vars

(***************************************************************************)
(* Properties of the activity log and of quests:remove                     *)
(***************************************************************************)

\* quest q is in the store before the step and is started by it
Starts(q) ==
    /\ q \in 1..Len(sQuests)
    /\ sQuests[q].status = "pending"
    /\ sQuests'[q].status = "in_progress"

\* the rows the step appended to the activity table
Appended == SubSeq(sActivity', Len(sActivity) + 1, Len(sActivity'))

\* the events of the step's transition, for an owner who belongs to a group
EventsOfStep ==
    IF \E q \in 1..Len(sQuests) : Starts(q)
    THEN LET q == CHOOSE q \in 1..Len(sQuests) : Starts(q)
         IN  <<[type |-> "quest_started", quest |-> q, xp |-> 0, newLevel |-> 0]>>
    ELSE IF \E q \in 1..Len(sQuests) : Completes(q)
    THEN LET q == CHOOSE q \in 1..Len(sQuests) : Completes(q)
         IN  <<[type |-> "quest_completed", quest |-> q, xp |-> sQuests[q].xp,
                newLevel |-> 0]>>
               \o (IF sUser'.level > sUser.level
                   THEN <<[type |-> "level_up", quest |-> 0, xp |-> 0,
                           newLevel |-> sUser'.level]>>
                   ELSE <<>>)
    ELSE IF Len(sQuests') > Len(sQuests)
    THEN <<[type |-> "quest_created", quest |-> Len(sQuests'),
            xp |-> sQuests'[Len(sQuests')].xp, newLevel |-> 0]>>
    ELSE <<>>

\* C25: the activity log only grows at its end, and each step appends exactly
\* the events of its transition when the owner belongs to a group: one
\* quest_started for a start, one quest_completed with the quest's xp for a
\* completion, followed by one level_up with the new level if and only if the
\* owner's level went up (and one quest_created for a creation); a call that
\* fails, and any call for an owner without a group, appends nothing.
C25_ActivityAppendOnly ==
    [][ /\ Len(sActivity') >= Len(sActivity)
        /\ SubSeq(sActivity', 1, Len(sActivity)) = sActivity
        /\ Appended = IF sUser.inGroup THEN EventsOfStep ELSE <<>>
        /\ \A c \in NewlyPosted :
              c.kind \in {"start", "complete"} /\ c.msg.err \notin {NoError, HttpError}
                  => Appended = <<>>
      ]_vars

\* a quest was created, started and completed by an owner in a group, who
\* went from level 1 to level 2 with it, and a second completion was rejected
C25_Witness ==
    /\ Len(sActivity) = 4
    /\ sActivity[2].type = "quest_started"
    /\ sActivity[3] = [type |-> "quest_completed", quest |-> 1, xp |-> 10,
                       newLevel |-> 0]
    /\ sActivity[4] = [type |-> "level_up", quest |-> 0, xp |-> 0, newLevel |-> 2]
    /\ \E c \in BagToSet(cmds) :
          c.posted /\ c.kind = "complete" /\ c.msg.err = "Quest already completed"

\* the step is a quests:remove call
Removes == gLast' # gLast /\ gLast'.op = "quests:remove"

\* C26: quests:remove succeeds exactly when the quest exists and is not
\* completed; a remove that succeeds deletes that quest, leaves every other
\* quest as it is, and leaves the user's totalXp, weeklyXp and level and the
\* activity log unchanged; a remove that fails changes nothing.
C26_RemoveOnlyUncompleted ==
    [][Removes =>
          LET q == gLast'.arg
          IN  /\ gLast'.err = "" <=> questExists(q) /\ sQuests[q].status # "completed"
              /\ sUser' = sUser
              /\ sActivity' = sActivity
              /\ Len(sQuests') = Len(sQuests)
              /\ \A k \in 1..Len(sQuests) : k # q => sQuests'[k] = sQuests[k]
              /\ IF gLast'.err = ""
                 THEN \A k \in 1..Len(sQuests') :
                         sQuests'[k].status = "deleted" <=>
                             k = q \/ sQuests[k].status = "deleted"
                 ELSE sQuests' = sQuests ]_vars

\* a quest in progress has just been removed while the other quest, completed
\* for 100 XP and a level, and the log of both are still there
C26_Witness ==
    /\ gLast.op = "quests:remove" /\ gLast.err = "" /\ gLast.arg = 1
    /\ Len(sQuests) = 2
    /\ ~questExists(1)
    /\ sQuests[2] = [xp |-> 100, status |-> "completed"]
    /\ sUser.totalXp = 100 /\ sUser.level = 2
    /\ Len(sActivity) = 6

(***************************************************************************)
(* Properties of the dashboard's digit, arrow and quit keys                *)
(***************************************************************************)

Digits == {"1", "2"}

\* the position in the quest list a digit key names, counted from 1
Position(key) == IF key = "1" THEN 1 ELSE 2

\* a digit key whose position exists is pressed on the dashboard, no modal up
DigitPressed ==
    /\ event.key \in Digits
    /\ app.screen = "dashboard"
    /\ NoModal
    /\ Position(event.key) <= Len(dQuests)
    /\ vars' # vars

\* the original wording: the digit selects the quest, in both focus states
C27_DigitSelects ==
    [][DigitPressed => selectedQuest' = Position(event.key) - 1]_vars

\* C27: on the dashboard with no modal visible, a digit key whose position
\* exists in the quest list never moves the selection or the focus.  While the
\* quest list is focused it acts on the quest at that position as Enter acts
\* on the selected one: it dispatches quests:start for a pending quest,
\* quests:complete for one in progress, nothing for a completed one.  While
\* the text field is focused the digit is typed into the text field and no
\* command is dispatched.
C27_DigitActsOnQuest ==
    [][DigitPressed =>
          /\ selectedQuest' = selectedQuest
          /\ inputFocused' = inputFocused
          /\ dQuests' = dQuests
          /\ IF inputFocused
             THEN /\ cmds' = cmds
                  /\ dInput' = IF Len(dInput) < MaxInput
                               THEN Append(dInput, event.key) ELSE dInput
             ELSE /\ dInput' = dInput
                  /\ LET quest == dQuests[Position(event.key)]
                     IN  CASE quest.status = "pending" ->
                                DispatchedOne("start", quest.id)
                           [] quest.status = "in_progress" ->
                                DispatchedOne("complete", quest.id)
                           [] OTHER -> cmds' = cmds ]_vars

\* '2' was pressed with the list focused on the first quest: the second quest
\* is being started and the selection is still on the first
C27_Witness ==
    /\ event.key = "2"
    /\ ~inputFocused
    /\ selectedQuest = 0
    /\ NoModal
    /\ Len(dQuests) = 2
    /\ dQuests[2].status = "pending"
    /\ \E c \in Commands : c.kind = "start" /\ c.quest = dQuests[2].id /\ ~c.posted

\* an arrow or vi key is pressed on the dashboard, no modal up
ArrowPressed ==
    /\ event.key \in {"up", "k", "down", "j"}
    /\ app.screen = "dashboard"
    /\ NoModal
    /\ Delivered = {}
    /\ vars' # vars

\* the step the key asks for
Direction == IF event.key \in {"up", "k"} THEN -1 ELSE 1

FieldFocused(m) ==
    CASE m.step = "StepName"        -> m.nameFocus
      [] m.step = "StepCreateGroup" -> m.groupFocus
      [] m.step = "StepJoinGroup"   -> m.codeFocus
      [] OTHER                      -> FALSE

\* the step is a press of 'q' on the dashboard (the specifications that press
\* one drawn key keep that key in event)
QOnDashboard ==
    /\ event.kind = "key" /\ event.key = "q"
    /\ app.screen = "dashboard"
    /\ Delivered = {}
    /\ vars' # vars

\* the value of a text field after it has taken the character 'q'
Typed(value, limit) ==
    IF Len(value) < limit THEN Append(value, "q") ELSE value

\* C29: 'q' ends the session exactly when no text field is focused; while a
\* text field is focused (the name, group-name or invite-code field of the
\* onboarding screen, the quest field of the dashboard) 'q' does not quit and
\* is typed into that field.
C29_QuitsExactlyWithoutFocus ==
    [][ /\ Pressed("q") =>
              /\ app'.quit <=> ~FieldFocused(onboarding)
              /\ FieldFocused(onboarding) =>
                    FieldOf(onboarding') = Typed(FieldOf(onboarding), MaxField)
        /\ QOnDashboard =>
              /\ app'.quit <=> ~inputFocused
              /\ inputFocused => dInput' = Typed(dInput, MaxInput)
      ]_vars

\* what holds: 'q' quits exactly when the flag App.Update reads is unset
\* (focusedInput < 0 on the onboarding screen, which Esc unsets while the text
\* input keeps the focus; inputFocused on the dashboard); with the flag set it
\* is typed into the field unless the onboarding screen is loading or a
\* dashboard modal is visible
C29_QuitsExactlyWithoutFlag ==
    [][ /\ Pressed("q") =>
              /\ app'.quit <=> onboarding.focusedInput < 0
              /\ onboarding.focusedInput >= 0 =>
                    FieldOf(onboarding') =
                        IF onboarding.loading THEN FieldOf(onboarding)
                        ELSE Typed(FieldOf(onboarding), MaxField)
        /\ QOnDashboard =>
              /\ app'.quit <=> ~inputFocused
              /\ inputFocused =>
                    dInput' = IF NoModal THEN Typed(dInput, MaxInput) ELSE dInput
      ]_vars

(***************************************************************************)
(* Properties of the level-up modal                                        *)
(***************************************************************************)

\* the step processed an event of this kind
Handles(kind) == event' # event /\ event'.kind = kind

\* the step is a completion that shows the modal: Show comes with a tick of
\* its own, besides the tick of the flash
ShowsModal == Handles("QuestCompletedMsg") /\ ticks' = ticks + 2

\* what each event does to the modal
ModalBudgetStep ==
    /\ ShowsModal => levelUpVisible' /\ modalTicks' = 0
    /\ Handles("QuestCompletedMsg") /\ ~ShowsModal =>
          UNCHANGED <<levelUpVisible, modalTicks>>
    /\ Handles("AnimationTickMsg") =>
          IF levelUpVisible
          THEN /\ modalTicks' = modalTicks + 1
               /\ levelUpVisible' <=> modalTicks' < MaxTicks
          ELSE UNCHANGED <<levelUpVisible, modalTicks>>
    /\ Handles("key") => ~levelUpVisible' /\ modalTicks' = modalTicks

\* C30: showing the level-up modal sets its tick counter to 0, also when it is
\* shown again; each animation tick processed while it is visible adds one to
\* the counter, and nothing else changes the counter; the modal stays visible
\* until a key press hides it or the tick that brings the counter to 60 does,
\* so it is never visible with a counter of 60 or more.
C30_ModalTickBudget ==
    /\ [](levelUpVisible => modalTicks < MaxTicks)
    /\ [][ModalBudgetStep]_vars

\* no key was pressed: the sixtieth tick has just hidden the modal of the
\* only completion so far
C30_Witness ==
    /\ event.kind = "AnimationTickMsg"
    /\ triggers = 1
    /\ modalTicks = MaxTicks
    /\ ~levelUpVisible
    /\ ticks = 0

(***************************************************************************)
(* Properties of the timers                                                *)
(***************************************************************************)

\* C31: there is a single animation-frame timer: in every reachable state at
\* most one animation tick is scheduled or waiting in the loop, also after a
\* completion that starts both the XP roll-up and flash and the level-up modal.
C31_OneAnimationTick == ticks <= 1

\* what a step may do to the refresh timers: a firing uses one up, dispatches
\* one loadActivity and one loadStats and arms one; besides that only the Init
\* of a dashboard arms one
RefreshStep ==
    /\ refresh'.fired # refresh.fired =>
          /\ refresh'.fired = refresh.fired + 1
          /\ refresh'.timers = refresh.timers
          /\ polls' = polls (+) LoadActivityAndStats
    /\ refresh'.fired = refresh.fired /\ refresh'.timers # refresh.timers =>
          /\ Handles("OnboardingCompleteMsg")
          /\ refresh'.timers = refresh.timers + 1

\* C32: while the Dashboard is active exactly one data-refresh timer is pending
\* at any time: Init arms one, each firing dispatches exactly one activity
\* refresh and one stats refresh and re-arms exactly one timer, and no other
\* event arms a refresh timer.
C32_OneRefreshTimer ==
    /\ [](app.screen = "dashboard" => refresh.timers = 1)
    /\ [][RefreshStep]_vars

(***************************************************************************)
(* Properties of the data refresh                                          *)
(***************************************************************************)

\* the step delivers the message of a loadActivity or loadStats command
PollDelivered(c) ==
    /\ c \in PollCommands
    /\ c.phase = "posted"
    /\ polls' = (polls (-) SetToBag({c})) (+) SetToBag({[c EXCEPT !.phase = "done"]})

\* the step delivers the UserLoadedMsg or the QuestsLoadedMsg
LoadDelivered(load) == loads[load].phase = "posted" /\ loads'[load].phase = "done"

\* the dashboard fields no refresh completion touches
BesideSlices ==
    <<dErr, dLoading, dInput, inputFocused, selectedQuest, levelUpVisible,
      groupVisible, animVars>>

\* each completion patches its own slice with what it carries, and nothing
\* when it carries an error
SliceStep ==
    /\ LoadDelivered("user") =>
          /\ UNCHANGED <<dQuests, dActivity, dStats, BesideSlices>>
          /\ loads.user.err # NoError => UNCHANGED dUser
          /\ loads.user.err = NoError => dUser' = loads.user.user
    /\ LoadDelivered("quests") =>
          /\ UNCHANGED <<dUser, dActivity, dStats, BesideSlices>>
          /\ loads.quests.err # NoError => UNCHANGED dQuests
          /\ loads.quests.err = NoError /\ loads.quests.quests # <<>> =>
                dQuests' = loads.quests.quests
    /\ \A c \in PollCommands :
          PollDelivered(c) /\ c.kind = "activity" =>
             /\ UNCHANGED <<dUser, dQuests, dStats, BesideSlices>>
             /\ c.err # NoError => UNCHANGED dActivity
             /\ c.err = NoError /\ c.activity # <<>> => dActivity' = c.activity
    /\ \A c \in PollCommands :
          PollDelivered(c) /\ c.kind = "stats" =>
             /\ UNCHANGED <<dUser, dQuests, dActivity, BesideSlices>>
             /\ c.err # NoError => UNCHANGED dStats
             /\ c.err = NoError => dStats' = c.stats

\* the four loads of Init have been delivered and the timer has not fired
InitLoadsDelivered ==
    /\ refresh.fired = 0
    /\ loads.user.phase = "done"
    /\ loads.quests.phase = "done"
    /\ \A c \in PollCommands : c.phase = "done"

\* the dashboard is what the four messages carried, whatever their order
PatchedByOwnMessage ==
    /\ dUser = loads.user.user
    /\ dQuests = loads.quests.quests
    /\ \A c \in PollCommands :
          /\ c.kind = "activity" => dActivity = c.activity
          /\ c.kind = "stats" => dStats = c.stats

ArrivalOrderStep ==
    LoadDelivered("quests") /\ loads.quests.err = NoError
                            /\ loads.quests.quests # <<>> =>
        dQuests' = loads.quests.quests

\* C34: completions are applied in arrival order with no generation or version
\* check: a quest list that arrives replaces the cached list whatever the
\* dashboard has learnt since the list was read, so a slow response can
\* overwrite newer state with an older snapshot.
C34_AppliedInArrivalOrder == [][ArrivalOrderStep]_vars

\* the dashboard had marked the quest completed and credited its XP; the
\* quest list read before that arrived afterwards and the cache shows the
\* quest as not completed again, which the store and the cached XP contradict
C34_Witness ==
    /\ hist[1].ok = 1
    /\ sQuests[1].status = "completed"
    /\ loads.quests.phase = "done"
    /\ Len(dQuests) = 1
    /\ dQuests = loads.quests.quests
    /\ dQuests[1].status # "completed"
    /\ cmds = EmptyBag

(***************************************************************************)
(* Properties of the insight a stats refresh returns                       *)
(***************************************************************************)

\* the selector chose rivalry or analyst for the request
SelectedCompetitive ==
    /\ insightType # InsightNotRun
    /\ insightType.mode \in {"rivalry", "analyst"}

\* the insight the client gets has the selected mode, and the fallback
\* generator fills one of that mode's templates
KeepsMode ==
    /\ insightType.stats = insightType.mode
    /\ insightType.fallback.type = insightType.mode
    /\ insightType.fallback.templated

\* C35: whenever the AI text service is unavailable for an insight request (not
\* configured, or the generation call fails), the insight returned to the
\* client still carries the mode the selector chose: a selected rivalry or
\* analyst mode yields a templated rivalry or analyst message, never a
\* downgrade to stoic.
C35_UnavailableKeepsMode ==
    SelectedCompetitive /\ ai \in {"unconfigured", "throws"} => KeepsMode

\* what holds: without credentials the templated message of the selected mode
\* is returned
C35_UnconfiguredKeepsMode ==
    SelectedCompetitive /\ ai = "unconfigured" => KeepsMode

(***************************************************************************)
(* Properties of the stored level                                          *)
(***************************************************************************)

\* C36: in every reachable state of the store the user's stored level is the
\* level of the stored total XP, calculateLevel(totalXp) in either copy of
\* the function, after any sequence of users:create, quests:complete and
\* users:addXp calls.
C36_LevelMatchesXP ==
    /\ sUser.level = calculateLevel(sUser.totalXp)
    /\ sUser.level = usersCalculateLevel(sUser.totalXp)

\* users:addXp and quests:complete calls have taken the user to exactly
\* 600 XP, the threshold of level 4
C36_Witness ==
    /\ gLast.op \in {"users:addXp", "quests:complete"}
    /\ gLast.err = ""
    /\ sUser.totalXp = 600
    /\ sUser.level = 4
    /\ \E q \in 1..Len(sQuests) : sQuests[q].status = "completed"

(***************************************************************************)
(* Properties of the cached user                                           *)
(***************************************************************************)

\* C37: in every reachable state the dashboard's cached total XP of the user
\* does not exceed the total XP the store records for that user, whatever the
\* arrival order of the initial user load and of the quest completions: the XP
\* of a quest is counted at most once in the cached total.
C37_CachedXPNeverAhead == dUser.totalXp <= sUser.totalXp

(***************************************************************************)
(* Properties of the selection and of the loading flag                     *)
(***************************************************************************)

\* C38: in every reachable state of the dashboard the selected quest index is
\* -1 or a valid index of the cached quest list, and it is -1 whenever the
\* text field is focused, also after a QuestsLoadedMsg replaces the list
\* while the quest list is focused.
C38_SelectionInRange ==
    /\ selectedQuest = -1 \/ (selectedQuest >= 0 /\ selectedQuest < Len(dQuests))
    /\ inputFocused => selectedQuest = -1

\* C39: the dashboard's loading flag is true exactly while at least one add
\* command (ai:evaluateQuest, then quests:create) is outstanding: set when the
\* command is dispatched, and set until the last outstanding add command has
\* delivered its QuestAddedMsg.
C39_LoadingWhileAddOutstanding ==
    dLoading <=> (\E c \in Commands : c.kind = "add")

====
